---- MODULE Spec2Model ----
(***************************************************************************)
(* Model of the HR compliance evaluator (hr-compliance-mvp/app/compliance.py *)
(* and its callers).  Strings are sequences of one-character strings, so    *)
(* that trimming, lower-casing and parsing are computed character by        *)
(* character as the Python built-ins compute them.                          *)
(***************************************************************************)
EXTENDS Integers, Sequences, FiniteSets, TLC

VARIABLES
    arule,      \* apply_rule_to_row: the rule argument
    arow,       \* apply_rule_to_row: the row argument (a dict)
    adt,        \* apply_rule_to_row: the dataset_type argument
    apc,        \* "call" before the call, "done" after it
    ares,       \* what the call produced (return value or exception)
    rules_tbl,  \* the rules table, in primary-key order (id = position)
    ds_found,   \* whether the Dataset row with dataset_id exists
    ds_type,    \* Dataset.dataset_type
    file_ok,    \* whether open(dataset.file_path) succeeds
    file_rows,  \* the rows csv.DictReader yields, in file order
    fail_at,    \* 0, or the number of the row whose read raises
    policy_id,  \* run_compliance: the policy_id argument
    pc,         \* run_compliance: control point
    rules,      \* run_compliance: the filtered rules
    opens,      \* number of open() calls made on the dataset file
    pos,        \* number of rows read from the file so far
    row,        \* run_compliance: the current row
    ri,         \* run_compliance: index of the next rule for the current row
    employee_id,         \* run_compliance: identifier of the current row
    violations_created,  \* run_compliance: the list being built
    session_new,         \* db session: objects added and not yet committed
    session_deleted,     \* db session: (policy, dataset) pairs whose DELETE
                         \* ran in the open transaction, not yet committed
    violations_tbl,      \* the committed violations table
    outcome,    \* how the run ended: return value or exception
    runs,       \* number of /compliance/run requests served
    last_returned,  \* per policy: what its most recent run that returned gave
    last_produced,  \* per policy: what its most recent run gave, <<>> if it failed
    ptext,      \* parse_rules_from_text: the policy_text argument
    pscope,     \* parse_rules_from_text: the scope argument
    ppc,        \* parse_rules_from_text: control point
    pnorm,      \* parse_rules_from_text: normalized
    prules,     \* parse_rules_from_text: the rules list
    pexc,       \* the exception that left the call, "none" if none
    calls,      \* the calls made so far: arguments and what each gave
    policies_tbl,   \* the policies table: id -> raw_text and scope
    parsed,         \* per policy: what parse_rules_from_text gives for it
    stored_rules,   \* the rules table rows the extraction and save routes
                    \* committed: policy_id and rule_code, in insertion order
    threads,        \* two concurrent /compliance/run requests: per thread its
                    \* pair, control point and the locals of run_compliance
    sessions,       \* per session: the pending objects and the pending deletes
    overlap         \* whether both requests have been under way at once

avars == <<arule, arow, adt, apc, ares>>
rvars == <<rules_tbl, ds_found, ds_type, file_ok, file_rows, fail_at, policy_id,
           pc, rules, opens, pos, row, ri, employee_id, violations_created,
           session_new, session_deleted, violations_tbl, outcome>>
hvars == <<runs, last_returned, last_produced>>
pvars == <<ptext, pscope, ppc, pnorm, prules, pexc, calls>>
svars == <<policies_tbl, parsed, stored_rules>>
tvars == <<threads, sessions, overlap>>
vars == <<avars, rvars, hvars, pvars, svars, tvars>>

----------------------------------------------------------------------------
(* Characters and strings *)

DigitChars == <<"0", "1", "2", "3", "4", "5", "6", "7", "8", "9">>
UpperChars == <<"A", "B", "C", "D", "E", "F", "G", "H", "I", "J", "K", "L", "M",
                "N", "O", "P", "Q", "R", "S", "T", "U", "V", "W", "X", "Y", "Z">>
LowerChars == <<"a", "b", "c", "d", "e", "f", "g", "h", "i", "j", "k", "l", "m",
                "n", "o", "p", "q", "r", "s", "t", "u", "v", "w", "x", "y", "z">>
SpaceChars == {" ", "\t", "\n", "\r"}

Range(f) == {f[x] : x \in DOMAIN f}
IndexOf(c, seq) == CHOOSE k \in DOMAIN seq : seq[k] = c
IsDigit(c) == c \in Range(DigitChars)
DigitVal(c) == IndexOf(c, DigitChars) - 1

\* str.lower(), one character
LowerChar(c) == IF c \in Range(UpperChars) THEN LowerChars[IndexOf(c, UpperChars)] ELSE c
\* str.lower()
Lower(s) == [k \in DOMAIN s |-> LowerChar(s[k])]

\* str.strip(): drop leading and trailing whitespace
RECURSIVE LStrip(_)
LStrip(s) == IF s # <<>> /\ Head(s) \in SpaceChars THEN LStrip(Tail(s)) ELSE s
RECURSIVE RStrip(_)
RStrip(s) ==
    IF s # <<>> /\ s[Len(s)] \in SpaceChars THEN RStrip(SubSeq(s, 1, Len(s) - 1)) ELSE s
Strip(s) == RStrip(LStrip(s))

AllDigits(s) == \A k \in DOMAIN s : IsDigit(s[k])
RECURSIVE DigitsToInt(_)
DigitsToInt(s) ==
    IF s = <<>> THEN 0 ELSE 10 * DigitsToInt(SubSeq(s, 1, Len(s) - 1)) + DigitVal(s[Len(s)])

\* positions of character c in s
Positions(c, s) == {k \in DOMAIN s : s[k] = c}
\* str.split(c) for a single-character separator
RECURSIVE Split(_, _)
Split(s, c) ==
    IF Positions(c, s) = {} THEN <<s>>
    ELSE LET k == CHOOSE p \in Positions(c, s) : \A q \in Positions(c, s) : p <= q
         IN <<SubSeq(s, 1, k - 1)>> \o Split(SubSeq(s, k + 1, Len(s)), c)

RECURSIVE Pow10(_)
Pow10(n) == IF n = 0 THEN 1 ELSE 10 * Pow10(n - 1)

----------------------------------------------------------------------------
(* Python values as they reach the evaluator *)

PyNone == [t |-> "none", s |-> <<>>, n |-> 0]
PyStr(s) == [t |-> "str", s |-> s, n |-> 0]
PyInt(n) == [t |-> "int", s |-> <<>>, n |-> n]

\* decimal representation of a non-negative integer
RECURSIVE NatToStr(_)
NatToStr(n) ==
    IF n < 10 THEN <<DigitChars[n + 1]>> ELSE NatToStr(n \div 10) \o <<DigitChars[(n % 10) + 1]>>

\* str(x)
Str(v) ==
    CASE v.t = "none" -> <<"N", "o", "n", "e">>
      [] v.t = "str" -> v.s
      [] v.t = "int" -> IF v.n < 0 THEN <<"-">> \o NatToStr(-v.n) ELSE NatToStr(v.n)

\* truth value of a Python object: None, "" and 0 are falsy
Truthy(v) == ~(v.t = "none" \/ (v.t = "str" /\ v.s = <<>>) \/ (v.t = "int" /\ v.n = 0))

\* dict.get(key, default)
Get(d, key, default) == IF key \in DOMAIN d THEN d[key] ELSE default

----------------------------------------------------------------------------
(* float(): the numbers a cell or a parameter can denote.  A finite number *)
(* is m / 10^e; k is "fin", "nan" or "inf" (for "inf", m is the sign).     *)

Fin(m, e) == [k |-> "fin", m |-> m, e |-> e]
NaN == [k |-> "nan", m |-> 0, e |-> 0]
Inf(sign) == [k |-> "inf", m |-> sign, e |-> 0]

\* a > b on floats: every comparison with nan is false
NumGt(a, b) ==
    CASE a.k = "nan" \/ b.k = "nan" -> FALSE
      [] a.k = "inf" -> a.m > 0 /\ ~(b.k = "inf" /\ b.m > 0)
      [] b.k = "inf" -> b.m < 0
      [] OTHER -> a.m * Pow10(b.e) > b.m * Pow10(a.e)

NumEq(a, b) ==
    CASE a.k = "nan" \/ b.k = "nan" -> FALSE
      [] a.k = "inf" \/ b.k = "inf" -> a.k = b.k /\ a.m = b.m
      [] OTHER -> a.m * Pow10(b.e) = b.m * Pow10(a.e)

FloatOk(v) == [exc |-> "none", val |-> v]
FloatErr(e) == [exc |-> e, val |-> NaN]

\* float(str): surrounding whitespace is ignored; an optional sign; then nan,
\* inf, infinity (any case) or decimal digits with at most one point and at
\* least one digit.  Other text over the characters drawn here raises
\* ValueError (the exponent and digit-separator forms are not drawn).
FloatOfStr(s) ==
    LET t == Strip(s)
        signed == t # <<>> /\ Head(t) \in {"+", "-"}
        sign == IF signed /\ Head(t) = "-" THEN -1 ELSE 1
        body == Lower(IF signed THEN Tail(t) ELSE t)
        parts == Split(body, ".")
        ip == parts[1]
        fp == IF Len(parts) = 2 THEN parts[2] ELSE <<>>
    IN  CASE body = <<"n", "a", "n">> -> FloatOk(NaN)
          [] body \in {<<"i", "n", "f">>, <<"i", "n", "f", "i", "n", "i", "t", "y">>} ->
                FloatOk(Inf(sign))
          [] OTHER ->
                IF /\ Len(parts) <= 2
                   /\ AllDigits(ip) /\ AllDigits(fp)
                   /\ Len(ip) + Len(fp) > 0
                THEN FloatOk(Fin(sign * DigitsToInt(ip \o fp), Len(fp)))
                ELSE FloatErr("ValueError")

\* float(x) for the values a row lookup can give
FloatOf(v) ==
    CASE v.t = "none" -> FloatErr("TypeError")
      [] v.t = "int" -> FloatOk(Fin(v.n, 0))
      [] v.t = "str" -> FloatOfStr(v.s)

----------------------------------------------------------------------------
(* datetime.strptime and parse_date.  A parsed date is its proleptic        *)
(* Gregorian ordinal (the formats carry no time of day).                    *)

IsLeap(y) == y % 4 = 0 /\ (y % 100 # 0 \/ y % 400 = 0)
DaysInMonth(y, m) ==
    CASE m \in {1, 3, 5, 7, 8, 10, 12} -> 31
      [] m \in {4, 6, 9, 11} -> 30
      [] OTHER -> IF IsLeap(y) THEN 29 ELSE 28
DaysBeforeYear(y) == (y - 1) * 365 + (y - 1) \div 4 - (y - 1) \div 100 + (y - 1) \div 400
RECURSIVE DaysBeforeMonth(_, _)
DaysBeforeMonth(y, m) ==
    IF m = 1 THEN 0 ELSE DaysBeforeMonth(y, m - 1) + DaysInMonth(y, m - 1)
Ordinal(y, m, d) == DaysBeforeYear(y) + DaysBeforeMonth(y, m) + d

NoDate == [ok |-> FALSE, ord |-> 0]

\* strptime(s, fmt) for a format of three numeric fields joined by sep;
\* yPos is the position of %Y.  %Y takes exactly four digits, %m and %d one
\* or two digits; a field out of range, or a day the month does not have,
\* raises ValueError (here: NoDate).
Strptime(s, sep, yPos) ==
    LET f == Split(s, sep)
        ys == f[yPos]
        ms == f[2]
        dd == f[4 - yPos]
        y == DigitsToInt(ys)
        m == DigitsToInt(ms)
        d == DigitsToInt(dd)
    IN  IF /\ Len(f) = 3
           /\ AllDigits(ys) /\ Len(ys) = 4
           /\ AllDigits(ms) /\ Len(ms) \in {1, 2}
           /\ AllDigits(dd) /\ Len(dd) \in {1, 2}
           /\ y >= 1
           /\ m \in 1..12
           /\ d >= 1 /\ d <= DaysInMonth(y, m)
        THEN [ok |-> TRUE, ord |-> Ordinal(y, m, d)]
        ELSE NoDate

\* parse_date(value): None for a falsy value, else the first of
\* %Y-%m-%d, %d/%m/%Y, %d-%m-%Y that parses, else None
parse_date(value) ==
    IF ~Truthy(value) THEN NoDate
    ELSE LET a == Strptime(value.s, "-", 1)
             b == Strptime(value.s, "/", 3)
             c == Strptime(value.s, "-", 3)
         IN  IF a.ok THEN a ELSE IF b.ok THEN b ELSE c

----------------------------------------------------------------------------
(* apply_rule_to_row *)

\* what a call produces: the pair (is_violation, evidence), or an exception
\* that leaves the function (exc # "none")
Ret(v, msg, args) ==
    [exc |-> "none", is_violation |-> v, evidence |-> [msg |-> msg, args |-> args]]
Raise(e) ==
    [exc |-> e, is_violation |-> FALSE, evidence |-> [msg |-> "", args |-> <<>>]]

TruthySet == {<<"y", "e", "s">>, <<"t", "r", "u", "e">>, <<"1">>, <<"y">>}

\* variant: the comparison taken as <=
TooLateMut(diff, min_days) == diff <= min_days
\* diff < min_days
TooLate(diff, min_days) == diff < min_days

\* the leave_advance_days branch
LeaveAdvanceDays(rule, r) ==
    LET request_col == Get(rule.params, "request_date_column", "request_date")
        start_col == Get(rule.params, "start_date_column", "leave_start_date")
        min_days == Get(rule.params, "min_days_before", 3)
        req_val == Get(r, request_col, PyNone)
        start_val == Get(r, start_col, PyNone)
        d_req == parse_date(req_val)
        d_start == parse_date(start_val)
        diff == d_start.ord - d_req.ord
    IN  IF ~d_req.ok \/ ~d_start.ok
        THEN Ret(FALSE, "Missing or invalid dates", <<>>)
        ELSE IF TooLate(diff, min_days)
             THEN Ret(TRUE, "Leave requested {diff} days before start; policy requires at least {min_days} days.",
                      <<diff, min_days>>)
             ELSE Ret(FALSE, "", <<>>)

\* variant: the comparison taken as >=
ExceedsMut(amount, max_amount) == NumGt(amount, max_amount) \/ NumEq(amount, max_amount)
\* amount > max_amount
Exceeds(amount, max_amount) == NumGt(amount, max_amount)

\* the benefit_max_amount branch
BenefitMaxAmount(rule, r) ==
    LET amount_col == Get(rule.params, "amount_column", "claim_amount")
        max_amount == Get(rule.params, "max_amount", Fin(10000, 1))
        f == FloatOf(Get(r, amount_col, PyInt(0)))
    IN  CASE f.exc = "ValueError" -> Ret(FALSE, "Invalid claim amount", <<>>)
          [] f.exc = "TypeError" -> Raise("TypeError")
          [] OTHER ->
                IF Exceeds(f.val, max_amount)
                THEN Ret(TRUE, "Claim amount {amount} exceeds max allowed {max_amount}.",
                         <<f.val, max_amount>>)
                ELSE Ret(FALSE, "", <<>>)

\* variant: the value compared without strip()
HasReceiptMut(raw) == Lower(raw) \in TruthySet
\* val = raw.strip().lower(); val in ("yes", "true", "1", "y")
HasReceipt(raw) == Lower(Strip(raw)) \in TruthySet

\* variant: the receipt column defaults to "receipt"
BenefitRequiresReceiptMut(rule, r) ==
    LET receipt_col == Get(rule.params, "receipt_column", "receipt")
        raw == Str(Get(r, receipt_col, PyStr(<<>>)))
        val == Lower(Strip(raw))
    IN  IF ~HasReceipt(raw)
        THEN Ret(TRUE, "Receipt is required but '{receipt_col}' is '{val}'.", <<receipt_col, val>>)
        ELSE Ret(FALSE, "", <<>>)

\* the benefit_requires_receipt branch
BenefitRequiresReceipt(rule, r) ==
    LET receipt_col == Get(rule.params, "receipt_column", "receipt_attached")
        raw == Str(Get(r, receipt_col, PyStr(<<>>)))
        val == Lower(Strip(raw))
    IN  IF ~HasReceipt(raw)
        THEN Ret(TRUE, "Receipt is required but '{receipt_col}' is '{val}'.", <<receipt_col, val>>)
        ELSE Ret(FALSE, "", <<>>)

\* variant: the test without "allowed and"
NotAllowedMut(v, allowed) == v \notin Range(allowed)
\* allowed and v not in allowed
NotAllowed(v, allowed) == allowed # <<>> /\ v \notin Range(allowed)

\* the benefit_allowed_types branch
BenefitAllowedTypes(rule, r) ==
    LET type_col == Get(rule.params, "type_column", "claim_type")
        given == Get(rule.params, "allowed_types", <<>>)
        allowed == [k \in DOMAIN given |-> Lower(given[k])]
        v == Lower(Strip(Str(Get(r, type_col, PyStr(<<>>)))))
    IN  IF NotAllowed(v, allowed)
        THEN Ret(TRUE, "Claim type '{v}' is not in allowed types: {allowed}", <<v, allowed>>)
        ELSE Ret(FALSE, "", <<>>)

NotApplicable == Ret(FALSE, "Rule type not applicable or not implemented", <<>>)

\* variant: dispatch on check_type alone, ignoring dataset_type
apply_rule_to_row_mut(rule, r, dataset_type) ==
    CASE rule.check_type = "leave_advance_days" -> LeaveAdvanceDays(rule, r)
      [] rule.check_type = "benefit_max_amount" -> BenefitMaxAmount(rule, r)
      [] rule.check_type = "benefit_requires_receipt" -> BenefitRequiresReceipt(rule, r)
      [] rule.check_type = "benefit_allowed_types" -> BenefitAllowedTypes(rule, r)
      [] OTHER -> NotApplicable

\* apply_rule_to_row(rule, row, dataset_type)
apply_rule_to_row(rule, r, dataset_type) ==
    LET ct == rule.check_type
    IN  IF dataset_type = "leave" /\ ct = "leave_advance_days"
        THEN LeaveAdvanceDays(rule, r)
        ELSE IF dataset_type = "benefit" /\ ct = "benefit_max_amount"
        THEN BenefitMaxAmount(rule, r)
        ELSE IF dataset_type = "benefit" /\ ct = "benefit_requires_receipt"
        THEN BenefitRequiresReceipt(rule, r)
        ELSE IF dataset_type = "benefit" /\ ct = "benefit_allowed_types"
        THEN BenefitAllowedTypes(rule, r)
        ELSE NotApplicable

----------------------------------------------------------------------------
(* Inputs of apply_rule_to_row.  A cell of a csv.DictReader row is a string, *)
(* or None when the line is shorter than the header; a column the header    *)
(* does not name is absent from the dict.                                   *)

Absent == [t |-> "absent", s |-> <<>>, n |-> 0]

\* the dict with the keys of f that are not Absent
Dict(f) == [c \in {c \in DOMAIN f : f[c] # Absent} |-> f[c]]

\* date cells: the three formats, month ends, a leap day, and cells no format parses
DateStrings ==
    { PyStr(<<"2", "0", "2", "4", "-", "0", "1", "-", "0", "1">>),
      PyStr(<<"2", "0", "2", "4", "-", "0", "1", "-", "0", "3">>),
      PyStr(<<"2", "0", "2", "4", "-", "0", "1", "-", "0", "4">>),
      PyStr(<<"0", "4", "/", "0", "1", "/", "2", "0", "2", "4">>),
      PyStr(<<"0", "3", "-", "0", "1", "-", "2", "0", "2", "4">>),
      PyStr(<<"2", "0", "2", "3", "-", "1", "2", "-", "3", "1">>),
      PyStr(<<"2", "0", "2", "4", "-", "0", "2", "-", "2", "9">>),
      PyStr(<<"2", "0", "2", "3", "-", "0", "2", "-", "2", "9">>),
      PyStr(<<"2", "0", "2", "4", "-", "0", "3", "-", "0", "1">>),
      PyStr(<<"2", "0", "2", "4", "-", "1", "-", "3">>),
      PyStr(<<"s", "o", "o", "n">>),
      PyStr(<<"2", "0", "2", "4", "-", "1", "3", "-", "0", "1">>),
      PyStr(<<" ", "2", "0", "2", "4", "-", "0", "1", "-", "0", "3">>),
      PyStr(<<>>) }

\* amount cells: decimals, signs, padding, nan and inf, and cells float() rejects
AmountStrings ==
    { PyStr(<<"1", "0", "0">>),
      PyStr(<<"1", "0", "0", ".", "0">>),
      PyStr(<<"1", "0", "0", ".", "5">>),
      PyStr(<<"1", "0", "0", ".", "5", "0">>),
      PyStr(<<" ", "1", "0", "1", " ">>),
      PyStr(<<"9", "9", ".", "9", "9">>),
      PyStr(<<"-", "1">>),
      PyStr(<<"-", "2">>),
      PyStr(<<"+", "1", "0", "0">>),
      PyStr(<<"n", "a", "n">>),
      PyStr(<<"i", "n", "f">>),
      PyStr(<<"-", "i", "n", "f">>),
      PyStr(<<"1", "0", "0", "0">>),
      PyStr(<<"1", "0", "0", "0", ".", "5">>),
      PyStr(<<"0">>),
      PyStr(<<"1", ".", "2", ".", "3">>),
      PyStr(<<"a", "b", "c">>),
      PyStr(<<>>),
      PyStr(<<"1", "2", "a", "b", "c">>),
      PyStr(<<".">>) }

\* receipt cells: the four truthy words in several cases and paddings, and others
ReceiptStrings ==
    { PyStr(<<"y", "e", "s">>),
      PyStr(<<"Y", "e", "s">>),
      PyStr(<<" ", "Y", "E", "S", " ">>),
      PyStr(<<"t", "r", "u", "e">>),
      PyStr(<<"T", "R", "U", "E">>),
      PyStr(<<"1">>),
      PyStr(<<"y">>),
      PyStr(<<"Y">>),
      PyStr(<<"\t", "y", "\n">>),
      PyStr(<<"n", "o">>),
      PyStr(<<"n">>),
      PyStr(<<"0">>),
      PyStr(<<"f", "a", "l", "s", "e">>),
      PyStr(<<"y", "e", "s", " ", "p", "l", "e", "a", "s", "e">>),
      PyStr(<<"y", "e">>),
      PyStr(<<"1", "1">>),
      PyStr(<<>>),
      PyStr(<<" ">>) }

\* claim type cells
TypeStrings ==
    { PyStr(<<"m", "e", "d", "i", "c", "a", "l">>),
      PyStr(<<" ", "M", "e", "d", "i", "c", "a", "l", " ">>),
      PyStr(<<"M", "E", "A", "L">>),
      PyStr(<<"t", "r", "a", "v", "e", "l">>),
      PyStr(<<"n", "o", "n", "e">>),
      PyStr(<<>>),
      PyStr(<<"m", "e", "a", "l", " ">>) }

DateCells == DateStrings \cup {PyNone, Absent}
AmountCells == AmountStrings \cup {PyNone, Absent}
ReceiptCells == ReceiptStrings \cup {PyNone, Absent}
TypeCells == TypeStrings \cup {PyNone, Absent}

\* largest min_days_before drawn
MaxMinDays == 3
\* most negative min_days_before drawn is -MaxNegDays
MaxNegDays == 2

LeaveRows ==
    {Dict([request_date |-> a, leave_start_date |-> b]) : a \in DateCells, b \in DateCells}
    \cup {Dict([req |-> a, start |-> b]) :
            a \in {PyStr(<<"2", "0", "2", "4", "-", "0", "1", "-", "0", "1">>)}, b \in DateCells}
AmountRows ==
    {Dict([employee_id |-> PyStr(<<"E", "1">>), claim_amount |-> a]) : a \in AmountCells}
    \cup {Dict([amt |-> a, claim_amount |-> PyStr(<<"0">>)]) : a \in AmountCells}
ReceiptRows ==
    {Dict([receipt_attached |-> a]) : a \in ReceiptCells}
    \cup {Dict([receipt |-> a, receipt_attached |-> PyStr(<<"y">>)]) : a \in ReceiptCells}
TypeRows ==
    {Dict([claim_type |-> a]) : a \in TypeCells}
    \cup {Dict([kind |-> a, claim_type |-> PyStr(<<"m", "e", "d", "i", "c", "a", "l">>)]) : a \in TypeCells}

Rule(id, pol, category, severity, check_type, params) ==
    [id |-> id, policy_id |-> pol, category |-> category, severity |-> severity,
     check_type |-> check_type, params |-> params]

\* params dicts: a key may be missing
LeaveParams ==
    {[request_date_column |-> "request_date", start_date_column |-> "leave_start_date",
           min_days_before |-> n] : n \in (-MaxNegDays)..MaxMinDays}
    \cup {[min_days_before |-> n] : n \in (-MaxNegDays)..MaxMinDays}
    \cup {[request_date_column |-> "req", start_date_column |-> "start",
                min_days_before |-> n] : n \in {0, 3}}
    \cup {<<>>}
MaxAmounts == {Fin(100, 0), Fin(1005, 1), Fin(-1, 0), Fin(0, 0)}
AmountParams ==
    {[amount_column |-> "claim_amount", max_amount |-> x] : x \in MaxAmounts}
    \cup {[amount_column |-> "amt", max_amount |-> x] : x \in MaxAmounts}
    \cup {[max_amount |-> x] : x \in MaxAmounts}
    \cup {[amount_column |-> "claim_amount"], <<>>}
ReceiptParams == {[receipt_column |-> "receipt_attached"], [receipt_column |-> "receipt"], <<>>}
AllowedLists ==
    { <<>>,
      <<<<"m", "e", "d", "i", "c", "a", "l">>, <<"m", "e", "a", "l">>>>,
      <<<<"M", "e", "d", "i", "c", "a", "l">>, <<"M", "E", "A", "L">>>>,
      <<<<" ", "m", "e", "d", "i", "c", "a", "l">>>>,
      <<<<"n", "o", "n", "e">>>> }
TypeParams ==
    {[type_column |-> "claim_type", allowed_types |-> l] : l \in AllowedLists}
    \cup {[type_column |-> "kind", allowed_types |-> l] : l \in AllowedLists}
    \cup {[allowed_types |-> l] : l \in AllowedLists}
    \cup {[type_column |-> "claim_type"], <<>>}

SupportedCheckTypes ==
    {"leave_advance_days", "benefit_max_amount", "benefit_requires_receipt", "benefit_allowed_types"}
OtherCheckTypes == {"", "leave_max_days", "BENEFIT_MAX_AMOUNT"}
DatasetTypes == {"leave", "benefit", "payroll"}

LeaveRules == {Rule(1, 1, "leave", "medium", "leave_advance_days", p) : p \in LeaveParams}
AmountRules == {Rule(1, 1, "benefit", "high", "benefit_max_amount", p) : p \in AmountParams}
ReceiptRules == {Rule(1, 1, "benefit", "medium", "benefit_requires_receipt", p) : p \in ReceiptParams}
TypeRules == {Rule(1, 1, "benefit", "low", "benefit_allowed_types", p) : p \in TypeParams}
OtherRules ==
    {Rule(1, 1, c, "medium", ct, p) :
        c \in {"leave", "benefit"}, ct \in OtherCheckTypes,
        p \in {<<>>, [amount_column |-> "claim_amount", max_amount |-> Fin(0, 0)]}}

\* rows given to a rule of another kind
MixedRows ==
    { Dict([request_date |-> PyStr(<<"2", "0", "2", "4", "-", "0", "1", "-", "0", "3">>), leave_start_date |-> PyStr(<<"2", "0", "2", "4", "-", "0", "1", "-", "0", "1">>)]),
      Dict([claim_amount |-> PyStr(<<"5", "0", "0", "0">>), receipt_attached |-> PyStr(<<"n", "o">>),
            claim_type |-> PyStr(<<"c", "a", "r">>)]),
      Dict([claim_amount |-> PyNone, receipt_attached |-> PyNone, claim_type |-> PyNone]),
      <<>> }

ApplyInputs ==
    (LeaveRules \X LeaveRows) \cup (AmountRules \X AmountRows)
    \cup (ReceiptRules \X ReceiptRows) \cup (TypeRules \X TypeRows)
    \cup ((LeaveRules \cup AmountRules \cup ReceiptRules \cup TypeRules \cup OtherRules) \X MixedRows)

----------------------------------------------------------------------------
(* The evaluator called on one rule and one row *)

NoRule == Rule(0, 0, "", "", "", <<>>)
NoResult == Raise("")

RunIdle ==
    /\ rules_tbl = <<>> /\ ds_found = FALSE /\ ds_type = "" /\ file_ok = FALSE
    /\ file_rows = <<>> /\ fail_at = 0 /\ policy_id = 0 /\ pc = "off"
    /\ rules = <<>> /\ opens = 0 /\ pos = 0 /\ row = <<>> /\ ri = 0
    /\ employee_id = <<>> /\ violations_created = <<>> /\ session_new = <<>>
    /\ session_deleted = {}
    /\ violations_tbl = <<>> /\ outcome = "none"

\* no /compliance/run request served yet
RouteIdle ==
    /\ runs = 0
    /\ last_returned = <<>>
    /\ last_produced = <<>>

\* parse_rules_from_text is not running
StoreIdle == policies_tbl = <<>> /\ parsed = <<>> /\ stored_rules = <<>>

\* no concurrent requests
ThreadsIdle == threads = <<>> /\ sessions = <<>> /\ overlap = FALSE

ParseIdle ==
    /\ ptext = <<>> /\ pscope = "" /\ ppc = "off" /\ pnorm = <<>>
    /\ prules = <<>> /\ pexc = "none" /\ calls = <<>>

InitApply ==
    /\ \E inp \in ApplyInputs : arule = inp[1] /\ arow = inp[2]
    /\ adt \in DatasetTypes
    /\ apc = "call"
    /\ ares = NoResult
    /\ RunIdle /\ RouteIdle /\ ParseIdle /\ StoreIdle /\ ThreadsIdle

\* is_violation, evidence = apply_rule_to_row(rule, row, dataset_type)
Apply ==
    /\ apc = "call"
    /\ ares' = apply_rule_to_row(arule, arow, adt)
    /\ apc' = "done"
    /\ UNCHANGED <<arule, arow, adt, rvars, hvars, pvars, svars, tvars>>

NextApply == Apply
SpecApply == InitApply /\ [][NextApply]_vars

----------------------------------------------------------------------------
(* Properties of apply_rule_to_row, checked under SpecApply *)

Called(dt, ct) == apc = "done" /\ adt = dt /\ arule.check_type = ct

\* the cell of the column a parameter names (Absent when the row lacks it)
CellOf(key, default) == Get(arow, Get(arule.params, key, default), Absent)

AmountCell == CellOf("amount_column", "claim_amount")
AmountParses == AmountCell.t = "str" /\ FloatOfStr(AmountCell.s).exc = "none"
ParsedAmount == FloatOfStr(AmountCell.s).val
MaxAmountParam == Get(arule.params, "max_amount", Fin(10000, 1))

\* C1: a benefit_max_amount rule on a benefit row whose amount cell parses as
\* a number reports a violation exactly when the parsed amount is strictly
\* greater than max_amount; an amount equal to max_amount does not violate.
C1_MaxAmountStrict ==
    (Called("benefit", "benefit_max_amount") /\ AmountParses) =>
        /\ ares.exc = "none"
        /\ ares.is_violation <=> NumGt(ParsedAmount, MaxAmountParam)
        /\ NumEq(ParsedAmount, MaxAmountParam) => ~ares.is_violation

\* the boundary: the cell 100.0 against max_amount 100
C1_Witness ==
    /\ Called("benefit", "benefit_max_amount") /\ AmountParses
    /\ AmountCell.s = <<"1", "0", "0", ".", "0">> /\ MaxAmountParam = Fin(100, 0)
    /\ ~ares.is_violation

ReceiptCell == CellOf("receipt_column", "receipt_attached")

\* C2: a benefit_requires_receipt rule on a benefit row reports no violation
\* when the receipt cell, trimmed and lower-cased, is yes, true, 1 or y, and
\* reports a violation for every other cell, an empty or missing one included.
C2_ReceiptTruthy ==
    Called("benefit", "benefit_requires_receipt") =>
        /\ ares.exc = "none"
        /\ IF ReceiptCell.t = "str"
           THEN ares.is_violation <=> Lower(Strip(ReceiptCell.s)) \notin TruthySet
           ELSE ares.is_violation

\* a padded upper-case YES is accepted
C2_Witness ==
    /\ Called("benefit", "benefit_requires_receipt")
    /\ ReceiptCell = PyStr(<<" ", "Y", "E", "S", " ">>)
    /\ ~ares.is_violation

RequestCell == CellOf("request_date_column", "request_date")
StartCell == CellOf("start_date_column", "leave_start_date")
DatesParse ==
    /\ RequestCell.t = "str" /\ parse_date(RequestCell).ok
    /\ StartCell.t = "str" /\ parse_date(StartCell).ok
DayDiff == parse_date(StartCell).ord - parse_date(RequestCell).ord
MinDaysParam == Get(arule.params, "min_days_before", 3)

\* C3: a leave_advance_days rule on a leave row whose two dates parse reports
\* a violation exactly when start minus request, in days, is strictly less
\* than min_days_before: an equal difference does not violate, and a negative
\* one violates whenever min_days_before >= 0.  With min_days_before = 3,
\* 2024-01-01 to 2024-01-03 violates (2 days against 3).
C3_LeaveAdvanceStrict ==
    (Called("leave", "leave_advance_days") /\ DatesParse) =>
        /\ ares.exc = "none"
        /\ ares.is_violation <=> DayDiff < MinDaysParam
        /\ DayDiff = MinDaysParam => ~ares.is_violation
        /\ (DayDiff < 0 /\ MinDaysParam >= 0) => ares.is_violation
        /\ ( /\ RequestCell.s = <<"2", "0", "2", "4", "-", "0", "1", "-", "0", "1">>
             /\ StartCell.s = <<"2", "0", "2", "4", "-", "0", "1", "-", "0", "3">>
             /\ MinDaysParam = 3 )
           => ares.is_violation /\ ares.evidence.args = <<2, 3>>

\* 2024-01-01 to 2024-01-04 with min_days_before = 3: difference 3, no violation
C3_Witness ==
    /\ Called("leave", "leave_advance_days") /\ DatesParse
    /\ RequestCell.s = <<"2", "0", "2", "4", "-", "0", "1", "-", "0", "1">>
    /\ StartCell.s = <<"2", "0", "2", "4", "-", "0", "1", "-", "0", "4">>
    /\ MinDaysParam = 3 /\ DayDiff = 3
    /\ ~ares.is_violation

TypeCell == CellOf("type_column", "claim_type")
\* the text compared: the cell, "" for a missing column, str(None) for None
TypeText == IF TypeCell = Absent THEN <<>> ELSE Str(TypeCell)
AllowedParam == Get(arule.params, "allowed_types", <<>>)

\* C4: a benefit_allowed_types rule on a benefit row reports a violation
\* exactly when the allowed list is non-empty and the type cell, trimmed and
\* lower-cased, equals no lower-cased entry of the list; with an empty or
\* missing list no row violates.
C4_AllowedTypes ==
    Called("benefit", "benefit_allowed_types") =>
        /\ ares.exc = "none"
        /\ ares.is_violation <=>
              /\ AllowedParam # <<>>
              /\ \A k \in DOMAIN AllowedParam :
                    Lower(Strip(TypeText)) # Lower(AllowedParam[k])
        /\ AllowedParam = <<>> => ~ares.is_violation

\* a padded, capitalised cell matches an upper-case entry of the list
C4_Witness ==
    /\ Called("benefit", "benefit_allowed_types")
    /\ TypeCell = PyStr(<<" ", "M", "e", "d", "i", "c", "a", "l", " ">>)
    /\ AllowedParam = <<<<"M", "e", "d", "i", "c", "a", "l">>, <<"M", "E", "A", "L">>>>
    /\ ~ares.is_violation

AmountUnusable ==
    \/ AmountCell = Absent
    \/ AmountCell = PyNone
    \/ AmountCell.t = "str" /\ FloatOfStr(AmountCell.s).exc # "none"
DateUnusable(cell) == cell = Absent \/ cell = PyNone \/ ~parse_date(cell).ok

\* C5: a leave_advance_days rule whose date value, or a benefit_max_amount
\* rule whose amount value, is missing or does not parse raises no error and
\* reports no violation.
C5_UnparseableSkipped ==
    ( \/ Called("leave", "leave_advance_days")
           /\ (DateUnusable(RequestCell) \/ DateUnusable(StartCell))
      \/ Called("benefit", "benefit_max_amount") /\ AmountUnusable )
    => (ares.exc = "none" /\ ~ares.is_violation)

HasBranch(dt, ct) ==
    \/ dt = "leave" /\ ct = "leave_advance_days"
    \/ dt = "benefit"
         /\ ct \in {"benefit_max_amount", "benefit_requires_receipt", "benefit_allowed_types"}

\* C6: a rule whose check_type is not one of the four supported values, or
\* has no branch for the dataset_type given, never raises and never reports
\* a violation, whatever the row.
C6_NotApplicable ==
    (apc = "done" /\ ~HasBranch(adt, arule.check_type)) =>
        (ares.exc = "none" /\ ~ares.is_violation)

\* a benefit_max_amount rule given a leave dataset_type and an amount far
\* above its max_amount
C6_Witness ==
    /\ Called("leave", "benefit_max_amount")
    /\ AmountParses /\ NumGt(ParsedAmount, MaxAmountParam)
    /\ ares.exc = "none" /\ ~ares.is_violation

\* the documented default of each params key
ParamDefaults ==
    [request_date_column |-> "request_date", start_date_column |-> "leave_start_date",
     min_days_before |-> 3, amount_column |-> "claim_amount", max_amount |-> Fin(10000, 1),
     receipt_column |-> "receipt_attached", type_column |-> "claim_type",
     allowed_types |-> <<>>]

\* the params keys a check_type reads
KeysOf(ct) ==
    CASE ct = "leave_advance_days" -> {"request_date_column", "start_date_column", "min_days_before"}
      [] ct = "benefit_max_amount" -> {"amount_column", "max_amount"}
      [] ct = "benefit_requires_receipt" -> {"receipt_column"}
      [] ct = "benefit_allowed_types" -> {"type_column", "allowed_types"}
      [] OTHER -> {}

MissingKeys(rule) == KeysOf(rule.check_type) \ DOMAIN rule.params

\* the rule with the keys K added to its params, each with its default
WithDefaults(rule, K) ==
    [rule EXCEPT !.params = [k \in DOMAIN rule.params \cup K |->
                                IF k \in DOMAIN rule.params THEN rule.params[k]
                                ELSE ParamDefaults[k]]]

\* C23: a rule whose params lack keys gives on every row and dataset type
\* what the same rule gives with any of those keys set to their defaults
\* (request_date, leave_start_date, 3, claim_amount, 1000.0,
\* receipt_attached, claim_type, the empty list): the same verdict, the same
\* evidence, and no exception the completed rule does not raise too.
C23_MissingKeysDefault ==
    apc = "done" =>
        \A K \in SUBSET MissingKeys(arule) :
            ares = apply_rule_to_row(WithDefaults(arule, K), arow, adt)

\* a leave rule without params on a request two days before the start: the
\* default of three days makes it a violation
C23_Witness ==
    /\ Called("leave", "leave_advance_days") /\ arule.params = <<>>
    /\ DatesParse /\ DayDiff = 2
    /\ ares.exc = "none" /\ ares.is_violation

----------------------------------------------------------------------------
(* run_compliance: the stores and the file it reads *)

\* most rules in the rules table
MaxRules == 2
\* most rows in the dataset file
MaxRows == 2

\* sequences over S of length at most n
SeqsUpTo(S, n) == UNION {[1..k -> S] : k \in 0..n}

\* rules of policy 1 (benefit and leave), a rule of policy 2, and a rule
\* with a check_type the evaluator has no branch for
RulePool ==
    { Rule(0, 1, "benefit", "high", "benefit_max_amount",
           [amount_column |-> "claim_amount", max_amount |-> Fin(100, 0)]),
      Rule(0, 1, "benefit", "medium", "benefit_requires_receipt",
           [receipt_column |-> "receipt_attached"]),
      Rule(0, 1, "leave", "medium", "leave_advance_days",
           [request_date_column |-> "request_date", start_date_column |-> "leave_start_date",
            min_days_before |-> 3]),
      Rule(0, 2, "benefit", "low", "benefit_requires_receipt",
           [receipt_column |-> "receipt_attached"]),
      Rule(0, 1, "benefit", "", "benefit_min_amount", <<>>) }

\* the table: the primary key is the position
RuleTables ==
    {[i \in DOMAIN t |-> [t[i] EXCEPT !.id = i]] : t \in SeqsUpTo(RulePool, MaxRules)}

\* rows of a benefit file; the last is a line shorter than the header
BenefitRowPool ==
    { [employee_id |-> PyStr(<<"E", "1">>), claim_amount |-> PyStr(<<"1", "5", "0">>), receipt_attached |-> PyStr(<<"y", "e", "s">>)],
      [employee_id |-> PyStr(<<"E", "2">>), claim_amount |-> PyStr(<<"5", "0">>), receipt_attached |-> PyStr(<<"n", "o">>)],
      [employee_id |-> PyStr(<<"E", "3">>), claim_amount |-> PyStr(<<"1", "0", "0", ".", "5">>), receipt_attached |-> PyStr(<<>>)],
      [employee_id |-> PyStr(<<"E", "4">>), claim_amount |-> PyNone, receipt_attached |-> PyNone] }
LeaveRowPool ==
    { [employee_id |-> PyStr(<<"E", "1">>), request_date |-> PyStr(<<"2", "0", "2", "4", "-", "0", "1", "-", "0", "1">>), leave_start_date |-> PyStr(<<"2", "0", "2", "4", "-", "0", "1", "-", "0", "3">>)],
      [employee |-> PyStr(<<"E", "2">>), request_date |-> PyStr(<<"0", "1", "/", "0", "1", "/", "2", "0", "2", "4">>), leave_start_date |-> PyStr(<<"2", "0", "2", "4", "-", "0", "1", "-", "0", "4">>)],
      [emp_id |-> PyStr(<<"E", "3">>), request_date |-> PyStr(<<"s", "o", "o", "n">>), leave_start_date |-> PyStr(<<>>)],
      [employee_id |-> PyStr(<<>>), employee |-> PyStr(<<"E", "5">>), request_date |-> PyStr(<<"2", "0", "2", "4", "-", "0", "1", "-", "0", "1">>), leave_start_date |-> PyStr(<<"2", "0", "2", "4", "-", "0", "1", "-", "0", "2">>)],
      [employee_id |-> PyStr(<<>>), emp_id |-> PyNone, request_date |-> PyStr(<<"2", "0", "2", "4", "-", "0", "1", "-", "0", "1">>), leave_start_date |-> PyStr(<<"2", "0", "2", "4", "-", "0", "1", "-", "0", "2">>)] }
RowPool(dt) == IF dt = "leave" THEN LeaveRowPool ELSE BenefitRowPool

Policies == {1, 2}
\* the dataset_id argument; the datasets table holds at most this dataset
DatasetId == 1

InitRun ==
    /\ arule = NoRule /\ arow = <<>> /\ adt = "" /\ apc = "off" /\ ares = NoResult
    /\ rules_tbl \in RuleTables
    /\ policy_id \in Policies
    /\ ds_found \in BOOLEAN
    /\ ds_type \in IF ds_found THEN {"leave", "benefit"} ELSE {""}
    /\ file_ok \in IF ds_found THEN BOOLEAN ELSE {FALSE}
    /\ file_rows \in IF file_ok THEN SeqsUpTo(RowPool(ds_type), MaxRows) ELSE {<<>>}
    /\ fail_at \in IF file_ok THEN 0..(Len(file_rows) + 1) ELSE {0}
    /\ pc = "start"
    /\ rules = <<>> /\ opens = 0 /\ pos = 0 /\ row = <<>> /\ ri = 0
    /\ employee_id = <<>> /\ violations_created = <<>> /\ session_new = <<>>
    /\ session_deleted = {}
    /\ violations_tbl = <<>> /\ outcome = "none"
    /\ RouteIdle /\ ParseIdle /\ StoreIdle /\ ThreadsIdle

\* the rules of seq with the given policy_id and category, in table order
RECURSIVE SelectSeqBy(_, _, _)
SelectSeqBy(seq, pol, dt) ==
    IF seq = <<>> THEN <<>>
    ELSE (IF Head(seq).policy_id = pol /\ Head(seq).category = dt THEN <<Head(seq)>> ELSE <<>>)
         \o SelectSeqBy(Tail(seq), pol, dt)

\* variant: the filter without the category
QueryRulesMut(pol, dt) == SelectSeq(rules_tbl, LAMBDA r : r.policy_id = pol)
\* variant: the filter without the policy
QueryRulesMut2(pol, dt) == SelectSeq(rules_tbl, LAMBDA r : r.category = dt)
\* db.query(Rule).filter(Rule.policy_id == policy_id, Rule.category == dataset_type).all()
QueryRules(pol, dt) == SelectSeqBy(rules_tbl, pol, dt)

\* variant: the first of the three keys the row has, whatever its value
EmployeeIdMut(r) ==
    IF "employee_id" \in DOMAIN r THEN r["employee_id"].s
    ELSE IF "employee" \in DOMAIN r THEN r["employee"].s
    ELSE IF "emp_id" \in DOMAIN r THEN r["emp_id"].s
    ELSE <<"U", "N", "K", "N", "O", "W", "N">>

\* x or y or ... : the first truthy operand, else the last
EmployeeId(r) ==
    LET a == Get(r, "employee_id", PyNone)
        b == Get(r, "employee", PyNone)
        c == Get(r, "emp_id", PyNone)
    IN  IF Truthy(a) THEN a.s
        ELSE IF Truthy(b) THEN b.s
        ELSE IF Truthy(c) THEN c.s
        ELSE <<"U", "N", "K", "N", "O", "W", "N">>

\* variant: the risk is the default whatever the rule's severity
ViolationMut(pol, rule, emp, evidence) ==
    [id |-> 0, policy_id |-> pol, rule_id |-> rule.id, dataset_id |-> DatasetId,
     employee_identifier |-> emp, evidence |-> evidence, risk |-> "medium"]

\* Violation(policy_id=..., rule_id=rule.id, dataset_id=..., ...); id is 0
\* until the commit gives it a primary key
Violation(pol, rule, emp, evidence) ==
    [id |-> 0, policy_id |-> pol, rule_id |-> rule.id, dataset_id |-> DatasetId,
     employee_identifier |-> emp, evidence |-> evidence,
     risk |-> IF rule.severity = "" THEN "medium" ELSE rule.severity]

\* variant: the new violation put first
AppendCreatedMut(created, v) == <<v>> \o created
\* violations_created.append(v)
AppendCreated(created, v) == Append(created, v)

\* the largest primary key in use, 0 for an empty table
MaxId(tbl) ==
    IF tbl = <<>> THEN 0
    ELSE CHOOSE m \in {tbl[k].id : k \in DOMAIN tbl} : \A k \in DOMAIN tbl : tbl[k].id <= m

\* the violations table as the open transaction sees it: the committed rows
\* less those of the pairs it has deleted
TxnView ==
    SelectSeq(violations_tbl, LAMBDA v : <<v.policy_id, v.dataset_id>> \notin session_deleted)

\* variant: the commit replaces the table by the pending objects
FlushMut(tbl, pending) == [k \in DOMAIN pending |-> [pending[k] EXCEPT !.id = k]]
\* db.commit(): the pending objects become rows, keyed after the rows present
Flush(tbl, pending) ==
    tbl \o [k \in DOMAIN pending |-> [pending[k] EXCEPT !.id = MaxId(tbl) + k]]

\* dataset = db.query(Dataset)...first(); if not dataset: raise ValueError
GetDataset ==
    /\ pc = "start"
    /\ IF ds_found
       THEN pc' = "query" /\ outcome' = outcome
       ELSE pc' = "raised" /\ outcome' = "ValueError"
    /\ UNCHANGED <<avars, hvars, pvars, svars, tvars, session_deleted, rules_tbl, ds_found, ds_type, file_ok, file_rows, fail_at,
                   policy_id, rules, opens, pos, row, ri, employee_id,
                   violations_created, session_new, violations_tbl>>

\* rules = db.query(Rule)...all(); if not rules: return []
FilterRules ==
    /\ pc = "query"
    /\ rules' = QueryRules(policy_id, ds_type)
    /\ IF rules' = <<>>
       THEN pc' = "returned" /\ outcome' = "return"
       ELSE pc' = "open" /\ outcome' = outcome
    /\ UNCHANGED <<avars, hvars, pvars, svars, tvars, session_deleted, rules_tbl, ds_found, ds_type, file_ok, file_rows, fail_at,
                   policy_id, opens, pos, row, ri, employee_id,
                   violations_created, session_new, violations_tbl>>

\* variant: a failed open() swallowed and taken for an empty file
OpenFileMut ==
    /\ pc = "open"
    /\ opens' = opens + 1
    /\ pc' = IF file_ok THEN "read" ELSE "commit"
    /\ UNCHANGED <<avars, hvars, pvars, svars, tvars, session_deleted, rules_tbl, ds_found, ds_type, file_ok, file_rows, fail_at,
                   policy_id, rules, pos, row, ri, employee_id, outcome,
                   violations_created, session_new, violations_tbl>>

\* with open(dataset.file_path, ...) as f: reader = csv.DictReader(f)
OpenFile ==
    /\ pc = "open"
    /\ opens' = opens + 1
    /\ IF file_ok
       THEN pc' = "read" /\ outcome' = outcome
       ELSE pc' = "raised" /\ outcome' = "OSError"
    /\ UNCHANGED <<avars, hvars, pvars, svars, tvars, session_deleted, rules_tbl, ds_found, ds_type, file_ok, file_rows, fail_at,
                   policy_id, rules, pos, row, ri, employee_id,
                   violations_created, session_new, violations_tbl>>

\* for row in reader: the next row, the end of the file, or a failed read
ReadRow ==
    /\ pc = "read"
    /\ IF fail_at = pos + 1
       THEN /\ pc' = "raised" /\ outcome' = "OSError"
            /\ UNCHANGED <<pos, row, ri, employee_id>>
       ELSE IF pos < Len(file_rows)
       THEN /\ pos' = pos + 1
            /\ row' = file_rows[pos + 1]
            /\ employee_id' = EmployeeId(file_rows[pos + 1])
            /\ ri' = 1
            /\ pc' = "rule" /\ outcome' = outcome
       ELSE /\ pc' = "commit" /\ outcome' = outcome
            /\ UNCHANGED <<pos, row, ri, employee_id>>
    /\ UNCHANGED <<avars, hvars, pvars, svars, tvars, session_deleted, rules_tbl, ds_found, ds_type, file_ok, file_rows, fail_at,
                   policy_id, rules, opens, violations_created, session_new,
                   violations_tbl>>

\* for rule in rules: apply_rule_to_row; on a violation db.add(v) and append
ApplyRule ==
    /\ pc = "rule"
    /\ LET rule == rules[ri]
           res == apply_rule_to_row(rule, row, ds_type)
           v == Violation(policy_id, rule, employee_id, res.evidence)
       IN  IF res.exc # "none"
           THEN /\ pc' = "raised" /\ outcome' = res.exc
                /\ UNCHANGED <<ri, violations_created, session_new>>
           ELSE /\ IF res.is_violation
                   THEN /\ session_new' = Append(session_new, v)
                        /\ violations_created' = AppendCreated(violations_created, v)
                   ELSE UNCHANGED <<violations_created, session_new>>
                /\ ri' = ri + 1
                /\ pc' = IF ri = Len(rules) THEN "read" ELSE "rule"
                /\ outcome' = outcome
    /\ UNCHANGED <<avars, hvars, pvars, svars, tvars, session_deleted, rules_tbl, ds_found, ds_type, file_ok, file_rows, fail_at,
                   policy_id, rules, opens, pos, row, employee_id, violations_tbl>>

\* db.commit(); db.refresh(v) for each v; return violations_created
CommitAndReturn ==
    /\ pc = "commit"
    /\ violations_tbl' = Flush(TxnView, session_new)
    /\ violations_created' =
          [k \in DOMAIN violations_created |->
              [violations_created[k] EXCEPT !.id = MaxId(TxnView) + k]]
    /\ session_new' = <<>>
    /\ session_deleted' = {}
    /\ pc' = "returned" /\ outcome' = "return"
    /\ UNCHANGED <<avars, hvars, pvars, svars, tvars, rules_tbl, ds_found, ds_type, file_ok, file_rows, fail_at,
                   policy_id, rules, opens, pos, row, ri, employee_id>>

Init == InitRun
Next == GetDataset \/ FilterRules \/ OpenFile \/ ReadRow \/ ApplyRule \/ CommitAndReturn
Spec == Init /\ [][Next]_vars

----------------------------------------------------------------------------
(* Properties of run_compliance, checked under Spec *)

Ended == pc \in {"returned", "raised"}
IsApplicable(rule) == rule.policy_id = policy_id /\ rule.category = ds_type
NoApplicableRule == \A j \in DOMAIN rules_tbl : ~IsApplicable(rules_tbl[j])
WouldViolate(rule, r) ==
    LET res == apply_rule_to_row(rule, r, ds_type) IN res.exc = "none" /\ res.is_violation

\* what identifies a violation: its rule, its row's employee, its risk
KeyOf(v) == <<v.rule_id, v.employee_identifier, v.risk>>
Keys(seq) == [k \in DOMAIN seq |-> KeyOf(seq[k])]

\* the violating (row, rule) pairs from pair (i, j) on, rows first and the
\* table's rules in order within a row
RECURSIVE ExpectedKeys(_, _)
ExpectedKeys(i, j) ==
    IF i > Len(file_rows) THEN <<>>
    ELSE IF j > Len(rules_tbl) THEN ExpectedKeys(i + 1, 1)
    ELSE (IF IsApplicable(rules_tbl[j]) /\ WouldViolate(rules_tbl[j], file_rows[i])
          THEN <<KeyOf(Violation(policy_id, rules_tbl[j], EmployeeId(file_rows[i]),
                                  apply_rule_to_row(rules_tbl[j], file_rows[i], ds_type).evidence))>>
          ELSE <<>>)
         \o ExpectedKeys(i, j + 1)

\* C7: the violations a run returns are exactly the violating (row, rule)
\* pairs, one per pair, in row order and within a row in the order of the
\* applicable rules: none repeated, dropped or reordered.
C7_RowMajorOrder ==
    pc = "returned" => Keys(violations_created) = ExpectedKeys(1, 1)

\* two rows and two rules giving three violations: both rules on the first
\* row, one on the second
C7_Witness ==
    /\ pc = "returned" /\ Len(violations_created) = 3
    /\ violations_created[1].employee_identifier = violations_created[2].employee_identifier
    /\ violations_created[1].rule_id < violations_created[2].rule_id
    /\ violations_created[3].employee_identifier # violations_created[1].employee_identifier

AllViolations == Range(violations_created) \cup Range(session_new) \cup Range(violations_tbl)

\* C8: every violation of a run refers to a rule of the evaluated policy
\* whose category is the dataset's dataset_type, so a rule of the other
\* category produces none; and with no rule of the dataset's type the run
\* returns an empty list without opening the file or reading a row.
C8_CategoryFilter ==
    /\ \A v \in AllViolations :
          /\ v.rule_id \in DOMAIN rules_tbl
          /\ rules_tbl[v.rule_id].policy_id = policy_id
          /\ rules_tbl[v.rule_id].category = ds_type
    /\ (Ended /\ ds_found /\ NoApplicableRule) =>
          /\ pc = "returned" /\ outcome = "return"
          /\ violations_created = <<>>
          /\ opens = 0 /\ pos = 0

\* a run that returned a violation while the policy also had a rule of the
\* other category
C8_Witness ==
    /\ pc = "returned" /\ violations_created # <<>>
    /\ \E j \in DOMAIN rules_tbl :
          rules_tbl[j].policy_id = policy_id /\ rules_tbl[j].category # ds_type

\* C9: a run over a dataset with no rows, or for a policy with no applicable
\* rule, returns an empty list and stores no violation.
C9_EmptyInputs ==
    ( /\ Ended /\ ds_found
      /\ \/ NoApplicableRule
         \/ file_ok /\ fail_at = 0 /\ file_rows = <<>> )
    => /\ pc = "returned" /\ outcome = "return"
       /\ violations_created = <<>>
       /\ session_new = <<>> /\ violations_tbl = <<>>

\* applicable rules, and a file that opens and holds no row
C9_Witness ==
    /\ pc = "returned" /\ ~NoApplicableRule
    /\ file_ok /\ file_rows = <<>> /\ opens = 1
    /\ violations_created = <<>>

\* open() fails, or the read of some row fails
SourceUnavailable == ~file_ok \/ fail_at # 0

\* C10 as stated: whenever the row source is unavailable the run ends in a
\* failure raised to the caller and never returns a list, whatever the rules.
C10_AlwaysRaises ==
    (Ended /\ ds_found /\ SourceUnavailable) => pc = "raised"

\* C10 amended: with at least one applicable rule, an unavailable row source
\* ends the run in a raised failure and nothing is returned or committed;
\* with no applicable rule the run returns the empty list without opening
\* the source.
C10_RaisesWhenRulesApply ==
    (Ended /\ ds_found /\ SourceUnavailable) =>
        IF NoApplicableRule
        THEN pc = "returned" /\ violations_created = <<>> /\ opens = 0
        ELSE /\ pc = "raised" /\ outcome # "return"
             /\ violations_tbl = <<>>

\* the read of the second row fails after the first row gave a violation
C10_Witness ==
    /\ pc = "raised" /\ outcome = "OSError"
    /\ fail_at = 2 /\ pos = 1
    /\ violations_created # <<>>

\* the identifier columns, in the order they are tried
IdColumns == <<"employee_id", "employee", "emp_id">>
Unknown == PyStr(<<"U", "N", "K", "N", "O", "W", "N">>)

IsNonEmpty(cell) == cell.t = "str" /\ cell.s # <<>>

\* the value of the first identifier column the row has (of the first whose
\* cell is a non-empty string when nonEmpty is set), else UNKNOWN
FirstIdColumn(r, nonEmpty) ==
    LET S == {k \in DOMAIN IdColumns :
                 /\ IdColumns[k] \in DOMAIN r
                 /\ nonEmpty => IsNonEmpty(r[IdColumns[k]])}
    IN  IF S = {} THEN Unknown
        ELSE r[IdColumns[CHOOSE k \in S : \A m \in S : k <= m]]

\* the rows read so far on which rule j of the filtered rules gave a violation
ViolatingRows(rule_id) ==
    {i \in 1..pos : \E j \in DOMAIN rules :
        rules[j].id = rule_id /\ WouldViolate(rules[j], file_rows[i])}

\* C13 as stated: the identifier on a row's violations is the value of the
\* first of employee_id, employee, emp_id the row has, and UNKNOWN only when
\* it has none of them.
C13_FirstPresentColumn ==
    /\ pc = "rule" => PyStr(employee_id) = FirstIdColumn(row, FALSE)
    /\ \A v \in Range(violations_created) :
          \E i \in ViolatingRows(v.rule_id) :
              PyStr(v.employee_identifier) = FirstIdColumn(file_rows[i], FALSE)

\* C13 amended: the identifier is the value of the first of the three
\* columns whose cell is a non-empty string, and UNKNOWN when no column has
\* one (absent, empty, or missing from a short line).
C13_FirstNonEmptyColumn ==
    /\ pc = "rule" => PyStr(employee_id) = FirstIdColumn(row, TRUE)
    /\ \A v \in Range(violations_created) :
          \E i \in ViolatingRows(v.rule_id) :
              PyStr(v.employee_identifier) = FirstIdColumn(file_rows[i], TRUE)

\* a returned run with a violation for a row whose employee_id cell is empty
\* and whose employee cell names the employee, and one for a row with an
\* empty employee_id cell and nothing else
C13_Witness ==
    /\ pc = "returned" /\ Len(violations_created) = 2 /\ Len(file_rows) = 2
    /\ Get(file_rows[1], "employee_id", Absent) = PyStr(<<>>)
    /\ "employee" \in DOMAIN file_rows[1]
    /\ PyStr(violations_created[1].employee_identifier) = file_rows[1]["employee"]
    /\ Get(file_rows[2], "employee_id", Absent) = PyStr(<<>>)
    /\ PyStr(violations_created[2].employee_identifier) = Unknown

----------------------------------------------------------------------------
(* The /compliance/run request: app.py run_compliance_route around          *)
(* run_compliance, with the rule store and the dataset file changing        *)
(* between requests                                                          *)

\* most /compliance/run requests in a behaviour
MaxRuns == 2

\* rules the rule-saving requests store: two rules of policy 1, and a rule
\* of policy 2 posted with an empty severity
RouteRulePool ==
    { Rule(0, 1, "benefit", "high", "benefit_max_amount",
           [amount_column |-> "claim_amount", max_amount |-> Fin(100, 0)]),
      Rule(0, 1, "benefit", "medium", "benefit_requires_receipt",
           [receipt_column |-> "receipt_attached"]),
      Rule(0, 2, "benefit", "", "benefit_requires_receipt",
           [receipt_column |-> "receipt_attached"]) }

\* rows of the uploaded benefit file: the first breaks the amount rule, the
\* second the receipt rule
RouteRowPool ==
    { [employee_id |-> PyStr(<<"E", "1">>), claim_amount |-> PyStr(<<"1", "5", "0">>), receipt_attached |-> PyStr(<<"y", "e", "s">>)],
      [employee_id |-> PyStr(<<"E", "2">>), claim_amount |-> PyStr(<<"5", "0">>), receipt_attached |-> PyStr(<<"n", "o">>)] }

\* the files uploaded under the dataset's file name: no row, one row, both
RouteFiles ==
    {f \in SeqsUpTo(RouteRowPool, Cardinality(RouteRowPool)) :
        \A i, j \in DOMAIN f : i < j => f[i] # f[j]}

\* the database after a dataset was uploaded and before any rule is stored
InitRoute ==
    /\ arule = NoRule /\ arow = <<>> /\ adt = "" /\ apc = "off" /\ ares = NoResult
    /\ rules_tbl = <<>>
    /\ policy_id = 0
    /\ ds_found = TRUE /\ ds_type = "benefit"
    /\ file_ok = TRUE
    /\ file_rows \in RouteFiles
    /\ fail_at = 0
    /\ pc = "idle"
    /\ rules = <<>> /\ opens = 0 /\ pos = 0 /\ row = <<>> /\ ri = 0
    /\ employee_id = <<>> /\ violations_created = <<>> /\ session_new = <<>>
    /\ session_deleted = {}
    /\ violations_tbl = <<>> /\ outcome = "none"
    /\ runs = 0
    /\ last_returned = [p \in Policies |-> <<>>]
    /\ last_produced = [p \in Policies |-> <<>>]
    /\ ParseIdle /\ StoreIdle /\ ThreadsIdle

\* variant: the previous violations of the pair are not cleared
DeletePairMut(pol) == {}
\* db_session.query(Violation).filter(policy_id, dataset_id).delete()
DeletePair(pol) == {<<pol, DatasetId>>}

\* a dataset id no dataset has
MissingDataset == 2

\* variant: the session is handed out as the earlier request left it
CloseSessionMut(new, deleted) == [new |-> new, deleted |-> deleted]
\* db = next(get_db()): the generator is dropped at once, so its finally
\* clause runs db.close() on the thread's session, which rolls back what an
\* earlier request left uncommitted: the pending objects and the deletes
CloseSession(new, deleted) == [new |-> <<>>, deleted |-> {}]

\* db.commit() on a session with the pending objects new and the deletes
\* deleted: the committed violations table after it
Committed(new, deleted) ==
    Flush(SelectSeq(violations_tbl, LAMBDA v : <<v.policy_id, v.dataset_id>> \notin deleted), new)

\* db_session = next(get_db()); then the pair's violations are deleted in a
\* new transaction and run_compliance is called, with the id of the
\* dataset or with an id no dataset has
RouteBegin ==
    /\ pc = "idle"
    /\ runs < MaxRuns
    /\ \E pol \in Policies, dataset_id \in {DatasetId, MissingDataset} :
          LET s == CloseSession(session_new, session_deleted)
          IN  /\ policy_id' = pol
              /\ ds_found' = (dataset_id = DatasetId)
              /\ session_deleted' =
                    s.deleted \cup (IF dataset_id = DatasetId THEN DeletePair(pol)
                                    ELSE {<<pol, dataset_id>>})
              /\ session_new' = s.new
    /\ runs' = runs + 1
    /\ pc' = "start" /\ outcome' = "none"
    /\ rules' = <<>> /\ opens' = 0 /\ pos' = 0 /\ row' = <<>> /\ ri' = 0
    /\ employee_id' = <<>> /\ violations_created' = <<>>
    /\ UNCHANGED <<avars, pvars, svars, tvars, rules_tbl, ds_type, file_ok, file_rows, fail_at,
                   violations_tbl, last_returned, last_produced>>

\* the request ends: a redirect after run_compliance returned (explain off),
\* or the exception leaves the handler; the session stays as it is
RouteEnd ==
    /\ pc \in {"returned", "raised"}
    /\ runs > 0
    /\ pc' = "idle"
    /\ last_produced' =
          [last_produced EXCEPT ![policy_id] =
              IF pc = "returned" THEN Keys(violations_created) ELSE <<>>]
    /\ last_returned' =
          IF pc = "returned"
          THEN [last_returned EXCEPT ![policy_id] = Keys(violations_created)]
          ELSE last_returned
    /\ UNCHANGED <<avars, pvars, svars, tvars, rules_tbl, ds_found, ds_type, file_ok, file_rows, fail_at,
                   policy_id, rules, opens, pos, row, ri, employee_id,
                   violations_created, session_new, session_deleted,
                   violations_tbl, outcome, runs>>

\* save_rules posted with an array of one rule not stored before: the
\* session is closed, a Rule row is added and the session committed
SaveRulesRows ==
    /\ pc = "idle"
    /\ \E r \in RouteRulePool :
          /\ \A k \in DOMAIN rules_tbl : [rules_tbl[k] EXCEPT !.id = 0] # r
          /\ rules_tbl' = Append(rules_tbl, [r EXCEPT !.id = Len(rules_tbl) + 1])
    /\ LET s == CloseSession(session_new, session_deleted)
       IN  violations_tbl' = Committed(s.new, s.deleted)
    /\ session_new' = <<>> /\ session_deleted' = {}
    /\ UNCHANGED <<avars, hvars, pvars, svars, tvars, ds_found, ds_type, file_ok, file_rows, fail_at,
                   policy_id, pc, rules, opens, pos, row, ri, employee_id,
                   violations_created, outcome>>

\* datasets POST with the file name of the dataset: the session is closed,
\* file.save(path) replaces the file the dataset record points to, and the
\* session is committed with the new Dataset record
UploadFile ==
    /\ pc = "idle"
    /\ file_rows' \in RouteFiles
    /\ file_ok' = TRUE /\ fail_at' = 0
    /\ LET s == CloseSession(session_new, session_deleted)
       IN  violations_tbl' = Committed(s.new, s.deleted)
    /\ session_new' = <<>> /\ session_deleted' = {}
    /\ UNCHANGED <<avars, hvars, pvars, svars, tvars, rules_tbl, ds_found, ds_type,
                   policy_id, pc, rules, opens, pos, row, ri, employee_id,
                   violations_created, outcome>>

\* the file becomes unreadable: open() fails, or the read of some row fails
FileFault ==
    /\ pc = "idle"
    /\ file_ok /\ fail_at = 0
    /\ \/ file_ok' = FALSE /\ file_rows' = <<>> /\ fail_at' = 0
       \/ file_ok' = TRUE /\ file_rows' = file_rows /\ fail_at' \in 1..(Len(file_rows) + 1)
    /\ UNCHANGED <<avars, hvars, pvars, svars, tvars, rules_tbl, ds_found, ds_type,
                   policy_id, pc, rules, opens, pos, row, ri, employee_id,
                   violations_created, session_new, session_deleted,
                   violations_tbl, outcome>>

NextRoute ==
    \/ RouteBegin \/ GetDataset \/ FilterRules \/ OpenFile \/ ReadRow
    \/ ApplyRule \/ CommitAndReturn \/ RouteEnd
    \/ SaveRulesRows \/ UploadFile \/ FileFault
SpecRoute == InitRoute /\ [][NextRoute]_vars

----------------------------------------------------------------------------
(* Properties of the /compliance/run request, checked under SpecRoute *)

\* the committed violations of the pair (pol, DatasetId), in table order
StoredFor(pol) ==
    Keys(SelectSeq(violations_tbl, LAMBDA v : v.policy_id = pol /\ v.dataset_id = DatasetId))

\* C11 as stated: between requests, the violations stored for a pair are
\* exactly those the most recent run for the pair produced, a run that failed
\* having produced none.
C11_MostRecentRun ==
    pc = "idle" => \A pol \in Policies : StoredFor(pol) = last_produced[pol]

\* C11 amended: the violations stored for a pair are exactly those returned
\* by the most recent run for the pair that returned (none before the first);
\* a run that returns replaces what the earlier runs of the pair stored, also
\* when it finds no applicable rule or no violation, and leaves the other
\* pairs alone; a run that fails leaves the stored violations as they were.
C11_MostRecentReturnedRun ==
    /\ pc # "returned" =>
          \A pol \in Policies : StoredFor(pol) = last_returned[pol]
    /\ pc = "returned" =>
          \A pol \in Policies :
              StoredFor(pol) = IF pol = policy_id THEN Keys(violations_created)
                               ELSE last_returned[pol]

\* a re-run that returned no violation for a pair whose earlier run had
\* stored some: nothing is left of them
C11_Witness ==
    /\ pc = "returned" /\ runs = 2
    /\ violations_created = <<>>
    /\ last_returned[policy_id] # <<>>
    /\ StoredFor(policy_id) = <<>>

OthersOf(tbl, pol) ==
    Keys(SelectSeq(tbl, LAMBDA v : ~(v.policy_id = pol /\ v.dataset_id = DatasetId)))

\* C24: a run that fails (no dataset record, open() failing, a read
\* failing before or during the scan) leaves the committed violations as they
\* were when the request started, the earlier violations of its pair
\* included; and what it had built is never committed afterwards: the
\* committed violations change only in the step in which a run returns, and
\* then to those of the other pairs followed by the ones that run built.
C24_FailedRunCommitsNothing ==
    [][ /\ (pc = "raised" \/ pc' = "raised") => violations_tbl' = violations_tbl
        /\ violations_tbl' # violations_tbl =>
              /\ pc = "commit" /\ pc' = "returned"
              /\ Keys(violations_tbl') =
                    OthersOf(violations_tbl, policy_id) \o Keys(violations_created')
      ]_vars

\* a request is over whose run failed after it had built a violation: the
\* violation and the delete are still pending in the session, and the
\* violations an earlier run stored for the pair are in the table
C24_Witness ==
    /\ pc = "idle" /\ outcome = "OSError"
    /\ session_new # <<>> /\ session_deleted = DeletePair(policy_id)
    /\ StoredFor(policy_id) # <<>>

\* the control points inside run_compliance
RunPoints == {"start", "query", "open", "read", "rule", "commit"}

\* what a step of run_compliance leaves alone
RunStepFrame ==
    /\ rules_tbl' = rules_tbl /\ svars' = svars
    /\ ds_found' = ds_found /\ ds_type' = ds_type
    /\ file_ok' = file_ok /\ file_rows' = file_rows /\ fail_at' = fail_at
    /\ pc # "query" => rules' = rules
    /\ \A k \in DOMAIN rules' : rules'[k] = rules_tbl[rules'[k].id]
    /\ pc' = "rule" => row' = file_rows[pos']
    /\ \/ violations_tbl' = violations_tbl
       \/ /\ pc' = "returned"
          /\ Len(violations_tbl') = Len(TxnView) + Len(violations_created)
          /\ SubSeq(violations_tbl', 1, Len(TxnView)) = TxnView

\* C22: no step of run_compliance changes a rule, a policy or a dataset
\* record, nor the rows of the file; the rules it works on are rows of the
\* rules table and stay as queried, the row it works on is the row of the
\* file; and it only adds violations: the committed violations its caller
\* has not deleted stay as they are, in place, whether the run returns
\* violations, returns none, or fails.
C22_RunOnlyAddsViolations == [][(pc \in RunPoints) => RunStepFrame]_vars

\* a run that returned violations while the table held those of another
\* pair, which are still there
C22_Witness ==
    /\ pc = "returned" /\ violations_created # <<>>
    /\ OthersOf(violations_tbl, policy_id) # <<>>

----------------------------------------------------------------------------
(* policy_parser.py: the regular expressions, computed on the text.  A      *)
(* matcher takes the text and a position and gives the position after the   *)
(* match, or 0 when there is no match at that position.  The patterns are   *)
(* searched in the lower-cased text (re.IGNORECASE); groups are cut from    *)
(* the text as written.                                                     *)

IsSpace(c) == c \in SpaceChars
\* \w
IsWordChar(c) == IsDigit(c) \/ c \in Range(LowerChars) \/ c \in Range(UpperChars) \/ c = "_"
\* \b between t[i-1] and t[i]
AtBoundary(t, i) ==
    (i > 1 /\ i - 1 <= Len(t) /\ IsWordChar(t[i - 1])) # (i >= 1 /\ i <= Len(t) /\ IsWordChar(t[i]))

\* the position after the longest run of characters of the class S from i on
RunEnd(t, i, S) ==
    CHOOSE j \in i..(Len(t) + 1) :
        /\ j = Len(t) + 1 \/ t[j] \notin S
        /\ \A k \in i..(j - 1) : t[k] \in S
\* the same for the characters outside S
RunEndNot(t, i, S) ==
    CHOOSE j \in i..(Len(t) + 1) :
        /\ j = Len(t) + 1 \/ t[j] \in S
        /\ \A k \in i..(j - 1) : t[k] \notin S

\* a literal word at i
MatchLit(t, i, w) ==
    IF /\ i >= 1 /\ i + Len(w) - 1 <= Len(t)
       /\ t[i] = w[1]
       /\ SubSeq(t, i, i + Len(w) - 1) = w
    THEN i + Len(w) ELSE 0
\* \s*
Ws0(t, i) == IF i = 0 THEN 0 ELSE RunEnd(t, i, SpaceChars)
\* \s+
Ws1(t, i) == IF i >= 1 /\ i <= Len(t) /\ IsSpace(t[i]) THEN RunEnd(t, i, SpaceChars) ELSE 0
\* (?:w\s+)? : taken when it matches; what follows cannot start with w
OptWord(t, i, w) ==
    LET p == Ws1(t, MatchLit(t, i, w)) IN IF p # 0 THEN p ELSE i
\* w1\s+w2\s+...\s+wn
RECURSIVE MatchWords(_, _, _)
MatchWords(t, i, ws) ==
    IF ws = <<>> THEN i
    ELSE LET p == MatchLit(t, i, Head(ws))
         IN  IF Len(ws) = 1 THEN p
             ELSE MatchWords(t, Ws1(t, p), Tail(ws))
\* a|b|... : the first alternative that matches (they begin differently)
FirstOf(ps) ==
    LET S == {k \in DOMAIN ps : ps[k] # 0}
    IN  IF S = {} THEN 0 ELSE ps[CHOOSE k \in S : \A m \in S : k <= m]

NoMatch == [ok |-> FALSE, from |-> 0, to |-> 0, g1 |-> <<>>]
Match(i, j, g) == [ok |-> TRUE, from |-> i, to |-> j, g1 |-> g]

\* re.search: of the positions with a match the leftmost, 0 if there is none
Leftmost(S) == IF S = {} THEN 0 ELSE CHOOSE i \in S : \A k \in S : i <= k

\* \b(?:annual\s+)?leave\s+must\s+be\s+requested\s+at\s+least\s+
LeaveHeadAt(t, i) ==
    IF ~AtBoundary(t, i) THEN 0
    ELSE Ws1(t, MatchWords(t, OptWord(t, i, <<"a", "n", "n", "u", "a", "l">>), <<<<"l", "e", "a", "v", "e">>, <<"m", "u", "s", "t">>, <<"b", "e">>, <<"r", "e", "q", "u", "e", "s", "t", "e", "d">>, <<"a", "t">>, <<"l", "e", "a", "s", "t">>>>))
\* \s+days\s+before\s+(?:the\s+)?(?:leave\s+)?start\s+date\b
LeaveTailAt(t, i) ==
    LET p == Ws1(t, MatchWords(t, Ws1(t, i), <<<<"d", "a", "y", "s">>, <<"b", "e", "f", "o", "r", "e">>>>))
        q == IF p = 0 THEN 0 ELSE OptWord(t, OptWord(t, p, <<"t", "h", "e">>), <<"l", "e", "a", "v", "e">>)
        e == MatchWords(t, q, <<<<"s", "t", "a", "r", "t">>, <<"d", "a", "t", "e">>>>)
    IN  IF e # 0 /\ AtBoundary(t, e) THEN e ELSE 0
\* the whole leave pattern at i: the position after the match, or 0
LeaveAt(t, i) ==
    LET d == LeaveHeadAt(t, i)
        e == IF d = 0 THEN 0 ELSE RunEnd(t, d, Range(DigitChars))
    IN  IF d # 0 /\ e > d THEN LeaveTailAt(t, e) ELSE 0
\* re.search of the leave pattern; group 1 is (\d+)
SearchLeave(norm) ==
    LET t == Lower(norm)
        i == Leftmost({k \in 1..Len(t) : LeaveAt(t, k) # 0})
        d == LeaveHeadAt(t, i)
    IN  IF i = 0 THEN NoMatch
        ELSE Match(i, LeaveAt(t, i), SubSeq(norm, d, RunEnd(t, d, Range(DigitChars)) - 1))

\* the currency signs of [$...]: the dollar sign stands for the three
CurrencyChars == {"$"}
\* [0-9,] and the characters of the last three parts of the amount
DigitOrComma == Range(DigitChars) \cup {","}

\* ([$...]?\s*[0-9][0-9,]*\.?[0-9]*)\b from i: the three greedy parts give
\* back characters, last part first, until the match ends at a word boundary.
\* A candidate is <<end of [0-9,]*, 1 if the point is taken, end of match>>.
AmountEnds(t, i) ==
    LET c == IF i >= 1 /\ i <= Len(t) /\ t[i] \in CurrencyChars THEN i + 1 ELSE i
        d == Ws0(t, c)
        ok == d >= 1 /\ d <= Len(t) /\ IsDigit(t[d])
        amax == IF ok THEN RunEnd(t, d + 1, DigitOrComma) ELSE 0
        bmax == IF ok THEN RunEnd(t, d + 1, DigitOrComma \cup {"."}) ELSE 0
        HasDot(a) == a <= Len(t) /\ t[a] = "."
    IN  IF ~ok THEN {}
        ELSE {<<a, 1, b>> : a \in {x \in (d + 1)..amax : HasDot(x)}, b \in (d + 1)..bmax}
             \cup {<<a, 0, b>> : a \in (d + 1)..amax, b \in (d + 1)..bmax}
\* the candidates that are matches: the last part is a run of digits, and
\* the match ends at a word boundary
AmountMatches(t, i) ==
    {c \in AmountEnds(t, i) :
        /\ c[3] >= c[1] + c[2]
        /\ c[3] <= RunEnd(t, c[1] + c[2], Range(DigitChars))
        /\ AtBoundary(t, c[3])}
\* the order in which the regex engine tries them
TriedBefore(c1, c2) ==
    \/ c1[1] > c2[1]
    \/ c1[1] = c2[1] /\ c1[2] > c2[2]
    \/ c1[1] = c2[1] /\ c1[2] = c2[2] /\ c1[3] >= c2[3]
AmountAt(t, i) ==
    LET S == AmountMatches(t, i)
    IN  IF i = 0 \/ S = {} THEN 0
        ELSE (CHOOSE c \in S : \A c2 \in S : TriedBefore(c, c2))[3]

\* \bclaims?\s+(?:above|over|greater\s+than)\s+
MaxHead1At(t, i) ==
    IF ~AtBoundary(t, i) THEN 0
    ELSE LET p == Ws1(t, FirstOf(<<MatchLit(t, i, <<"c", "l", "a", "i", "m", "s">>), MatchLit(t, i, <<"c", "l", "a", "i", "m">>)>>))
         IN  Ws1(t, FirstOf(<<MatchLit(t, p, <<"a", "b", "o", "v", "e">>), MatchLit(t, p, <<"o", "v", "e", "r">>),
                             MatchWords(t, p, <<<<"g", "r", "e", "a", "t", "e", "r">>, <<"t", "h", "a", "n">>>>)>>))
Max1At(t, i) == AmountAt(t, MaxHead1At(t, i))
SearchMax1(norm) ==
    LET t == Lower(norm)
        i == Leftmost({k \in 1..Len(t) : Max1At(t, k) # 0})
    IN  IF i = 0 THEN NoMatch
        ELSE Match(i, Max1At(t, i), SubSeq(norm, MaxHead1At(t, i), Max1At(t, i) - 1))

\* \bclaim\s+amount\s+must\s+be\s*(?:<=|less\s+than\s+or\s+equal\s+to)\s+
MaxHead2At(t, i) ==
    IF ~AtBoundary(t, i) THEN 0
    ELSE LET p == Ws0(t, MatchWords(t, i, <<<<"c", "l", "a", "i", "m">>, <<"a", "m", "o", "u", "n", "t">>, <<"m", "u", "s", "t">>, <<"b", "e">>>>))
         IN  Ws1(t, FirstOf(<<MatchLit(t, p, <<"<", "=">>), MatchWords(t, p, <<<<"l", "e", "s", "s">>, <<"t", "h", "a", "n">>, <<"o", "r">>, <<"e", "q", "u", "a", "l">>, <<"t", "o">>>>)>>))
Max2At(t, i) == AmountAt(t, MaxHead2At(t, i))
SearchMax2(norm) ==
    LET t == Lower(norm)
        i == Leftmost({k \in 1..Len(t) : Max2At(t, k) # 0})
    IN  IF i = 0 THEN NoMatch
        ELSE Match(i, Max2At(t, i), SubSeq(norm, MaxHead2At(t, i), Max2At(t, i) - 1))

\* \b(?:a\s+)?receipt\s+must\s+be\s+attached\s+for\s+all\s+claims\b
\* |\ball\s+benefit\s+claims\s+require\s+a\s+receipt\b
ReceiptAt(t, i) ==
    IF ~AtBoundary(t, i) THEN 0
    ELSE LET a == MatchWords(t, OptWord(t, i, <<"a">>), <<<<"r", "e", "c", "e", "i", "p", "t">>, <<"m", "u", "s", "t">>, <<"b", "e">>, <<"a", "t", "t", "a", "c", "h", "e", "d">>, <<"f", "o", "r">>, <<"a", "l", "l">>, <<"c", "l", "a", "i", "m", "s">>>>)
             b == MatchWords(t, i, <<<<"a", "l", "l">>, <<"b", "e", "n", "e", "f", "i", "t">>, <<"c", "l", "a", "i", "m", "s">>, <<"r", "e", "q", "u", "i", "r", "e">>, <<"a">>, <<"r", "e", "c", "e", "i", "p", "t">>>>)
         IN  FirstOf(<<IF a # 0 /\ AtBoundary(t, a) THEN a ELSE 0,
                       IF b # 0 /\ AtBoundary(t, b) THEN b ELSE 0>>)
SearchReceipt(norm) ==
    LET t == Lower(norm)
        i == Leftmost({k \in 1..Len(t) : ReceiptAt(t, k) # 0})
    IN  IF i = 0 THEN NoMatch ELSE Match(i, ReceiptAt(t, i), <<>>)

\* \ballowed\s+claim\s+types\s+(?:include|are)\s+
TypesHeadAt(t, i) ==
    IF ~AtBoundary(t, i) THEN 0
    ELSE LET p == Ws1(t, MatchWords(t, i, <<<<"a", "l", "l", "o", "w", "e", "d">>, <<"c", "l", "a", "i", "m">>, <<"t", "y", "p", "e", "s">>>>))
         IN  Ws1(t, FirstOf(<<MatchLit(t, p, <<"i", "n", "c", "l", "u", "d", "e">>), MatchLit(t, p, <<"a", "r", "e">>)>>))
\* ([^\.]+)\. : at least one character, up to the next point.  In a
\* whitespace-normalized text the \s+ before the group has no character to
\* give back to it.
TypesAt(t, i) ==
    LET c == TypesHeadAt(t, i)
        e == IF c = 0 THEN 0 ELSE RunEndNot(t, c, {"."})
    IN  IF c # 0 /\ e > c /\ e <= Len(t) THEN e + 1 ELSE 0
SearchTypes(norm) ==
    LET t == Lower(norm)
        i == Leftmost({k \in 1..Len(t) : TypesAt(t, k) # 0})
    IN  IF i = 0 THEN NoMatch
        ELSE Match(i, TypesAt(t, i), SubSeq(norm, TypesHeadAt(t, i), TypesAt(t, i) - 2))

\* re.sub(r"\s+", " ", text): every run of whitespace becomes one space
Normalize(text) ==
    LET keep == SelectSeq([k \in DOMAIN text |-> k],
                          LAMBDA k : ~(IsSpace(text[k]) /\ k > 1 /\ IsSpace(text[k - 1])))
    IN  [j \in DOMAIN keep |-> IF IsSpace(text[keep[j]]) THEN " " ELSE text[keep[j]]]

\* text.replace(",", "")
RemoveCommas(s) == SelectSeq(s, LAMBDA c : c # ",")
\* [0-9.-]
NumericChars == Range(DigitChars) \cup {".", "-"}
\* _to_number(text): float of the text without commas and without its
\* non-numeric prefix; 0.0 when float() raises
to_number(text) ==
    LET t == RemoveCommas(Strip(text))
        u == SubSeq(t, RunEndNot(t, 1, NumericChars), Len(t))
        f == FloatOfStr(u)
    IN  IF f.exc = "none" THEN f.val ELSE Fin(0, 1)

\* a separator of re.split(r"\s*,\s*|\s+and\s+|\s+or\s+") at i (the text as
\* written: re.split is called without re.IGNORECASE)
SepAt(s, i) ==
    LET j == Ws0(s, i)
        comma == IF j <= Len(s) /\ s[j] = "," THEN Ws0(s, j + 1) ELSE 0
        w == Ws1(s, i)
    IN  FirstOf(<<comma, Ws1(s, MatchLit(s, w, <<"a", "n", "d">>)), Ws1(s, MatchLit(s, w, <<"o", "r">>))>>)
\* re.split: the pieces between the separators, leftmost separator first
RECURSIVE SplitTypes(_)
SplitTypes(s) ==
    LET i == Leftmost({k \in 1..Len(s) : SepAt(s, k) # 0})
    IN  IF i = 0 THEN <<s>>
        ELSE <<SubSeq(s, 1, i - 1)>> \o SplitTypes(SubSeq(s, SepAt(s, i), Len(s)))
\* re.sub(r"^(and|or)\s+", "", t)
StripConjunction(t) ==
    LET p == FirstOf(<<Ws1(t, MatchLit(t, 1, <<"a", "n", "d">>)), Ws1(t, MatchLit(t, 1, <<"o", "r">>))>>)
    IN  IF p = 0 THEN t ELSE SubSeq(t, p, Len(t))
\* the loop over parts: strip, lower, skip the empty, drop a leading conjunction
RECURSIVE CleanTypes(_)
CleanTypes(parts) ==
    IF parts = <<>> THEN <<>>
    ELSE LET t == Lower(Strip(Head(parts)))
         IN  (IF t = <<>> THEN <<>> ELSE <<StripConjunction(t)>>) \o CleanTypes(Tail(parts))
\* types = [t for t in cleaned if t]
AllowedTypesOf(raw) == SelectSeq(CleanTypes(SplitTypes(Strip(raw))), LAMBDA t : t # <<>>)

\* sys.int_info.default_max_str_digits: int(str) raises ValueError beyond it
IntMaxStrDigits == 4300
\* int(s) for a string of digits
IntOfDigits(s) ==
    IF Len(s) > IntMaxStrDigits THEN [exc |-> "ValueError", val |-> 0]
    ELSE [exc |-> "none", val |-> DigitsToInt(s)]

\* f"{n:03d}"
Pad3(n) ==
    LET s == NatToStr(n)
    IN  IF Len(s) >= 3 THEN s ELSE [k \in 1..(3 - Len(s)) |-> "0"] \o s
\* variant: the rules counted whatever their category
CountCategoryMut(rs, category) == Len(rs)
\* len([r for r in rules if r.get('category') == category])
CountCategory(rs, category) == Len(SelectSeq(rs, LAMBDA r : r.category = category))
\* f"LEAVE_{...+1:03d}" and f"BEN_{...+1:03d}"
RuleCode(rs, category) ==
    (IF category = "leave" THEN <<"L", "E", "A", "V", "E", "_">> ELSE <<"B", "E", "N", "_">>) \o Pad3(CountCategory(rs, category) + 1)

\* a rule dict (the description, a text built from the params, is not kept)
RuleDict(code, category, severity, check_type, params) ==
    [rule_code |-> code, category |-> category, severity |-> severity,
     check_type |-> check_type, params |-> params]

\* what a block of the function leaves: the rules list, and the exception
\* that left the function if any
Block(rs, e) == [rules |-> rs, exc |-> e]

\* rules.append(rule): variant with the new rule put first
AppendRuleMut(rs, r) == <<r>> \o rs
\* rules.append(rule)
AppendRule(rs, r) == Append(rs, r)

\* want_leave = scope in ("both", "leave")
WantLeave(scope) == scope \in {"both", "leave"}
\* variant: the benefit patterns tried whatever the scope
WantBenefitMut(scope) == TRUE
\* want_benefit = scope in ("both", "benefit")
WantBenefit(scope) == scope \in {"both", "benefit"}

\* lines 40-62: the leave rule
LeaveBlock(rs, norm, scope) ==
    LET m == SearchLeave(norm)
        days == IntOfDigits(m.g1)
    IN  IF ~WantLeave(scope) \/ ~m.ok THEN Block(rs, "none")
        ELSE IF days.exc # "none" THEN Block(rs, days.exc)
        ELSE Block(AppendRule(rs, RuleDict(RuleCode(rs, "leave"), "leave", "medium",
                       "leave_advance_days",
                       [request_date_column |-> "request_date",
                        start_date_column |-> "leave_start_date",
                        min_days_before |-> days.val])), "none")

\* variant: the second phrasing preferred to the first
MaxAmountGroupMut(m1, m2) == IF m2.ok THEN m2.g1 ELSE m1.g1
\* (m1 or m2).group(1)
MaxAmountGroup(m1, m2) == IF m1.ok THEN m1.g1 ELSE m2.g1

\* lines 64-87: the maximum-amount rule
MaxAmountBlock(rs, norm, scope) ==
    LET m1 == SearchMax1(norm)
        m2 == SearchMax2(norm)
    IN  IF ~WantBenefit(scope) \/ ~(m1.ok \/ m2.ok) THEN Block(rs, "none")
        ELSE Block(AppendRule(rs, RuleDict(RuleCode(rs, "benefit"), "benefit", "high",
                       "benefit_max_amount",
                       [amount_column |-> "claim_amount",
                        max_amount |-> to_number(MaxAmountGroup(m1, m2))])), "none")

\* lines 89-104: the receipt rule
ReceiptBlock(rs, norm, scope) ==
    IF ~WantBenefit(scope) \/ ~SearchReceipt(norm).ok THEN Block(rs, "none")
    ELSE Block(AppendRule(rs, RuleDict(RuleCode(rs, "benefit"), "benefit", "medium",
                   "benefit_requires_receipt",
                   [receipt_column |-> "receipt_attached"])), "none")

\* lines 106-134: the allowed-types rule
AllowedTypesBlock(rs, norm, scope) ==
    LET m3 == SearchTypes(norm)
        types == AllowedTypesOf(m3.g1)
    IN  IF ~WantBenefit(scope) \/ ~m3.ok \/ types = <<>> THEN Block(rs, "none")
        ELSE Block(AppendRule(rs, RuleDict(RuleCode(rs, "benefit"), "benefit", "low",
                       "benefit_allowed_types",
                       [type_column |-> "claim_type", allowed_types |-> types])), "none")

\* the element of a one-element set
Only(S) == CHOOSE x \in S : TRUE

\* parse_rules_from_text(policy_text, scope): the blocks in their order, an
\* exception ending the call at the block that raised it.  normalized and
\* the rules list after each block (b1, b2, b3) are computed once each.
parse_rules_from_text(policy_text, scope) ==
    Only({Only({Only({Only({
        IF b1.exc # "none" THEN Block(<<>>, b1.exc)
        ELSE AllowedTypesBlock(b3.rules, norm, scope)
            : b3 \in {ReceiptBlock(b2.rules, norm, scope)}})
            : b2 \in {MaxAmountBlock(b1.rules, norm, scope)}})
            : b1 \in {LeaveBlock(<<>>, norm, scope)}})
            : norm \in {Normalize(Strip(policy_text))}})

----------------------------------------------------------------------------
(* parse_rules_from_text as a state machine: one step per block of the      *)
(* function                                                                  *)

\* most sentences in a policy text
MaxSentences == 2
\* most calls in a behaviour of the repeated-call specification
MaxCalls == 3

\* sentences of a policy: the supported phrasings in several spellings, a
\* types list the split leaves whole, one with a trailing conjunction, and a
\* sentence no pattern recognizes
Sentences ==
    { <<"A", "n", "n", "u", "a", "l", " ", "l", "e", "a", "v", "e", " ", "m", "u", "s", "t", " ", "b", "e", " ", "r", "e", "q", "u", "e", "s", "t", "e", "d", " ", "a", "t", " ", "l", "e", "a", "s", "t", " ", "3", " ", "d", "a", "y", "s", " ", "b", "e", "f", "o", "r", "e", " ", "t", "h", "e", " ", "l", "e", "a", "v", "e", " ", "s", "t", "a", "r", "t", " ", "d", "a", "t", "e", ".">>,
      <<"S", "i", "c", "k", " ", "L", "E", "A", "V", "E", " ", "m", "u", "s", "t", " ", "b", "e", "\n", "r", "e", "q", "u", "e", "s", "t", "e", "d", " ", "a", "t", " ", "l", "e", "a", "s", "t", " ", "1", "4", " ", "d", "a", "y", "s", " ", "b", "e", "f", "o", "r", "e", " ", "s", "t", "a", "r", "t", " ", "d", "a", "t", "e", ".">>,
      <<"C", "l", "a", "i", "m", "s", " ", "a", "b", "o", "v", "e", " ", "$", "1", ",", "0", "0", "0", " ", "a", "r", "e", " ", "n", "o", "t", " ", "a", "l", "l", "o", "w", "e", "d", ".">>,
      <<"C", "l", "a", "i", "m", " ", "a", "m", "o", "u", "n", "t", " ", "m", "u", "s", "t", " ", "b", "e", " ", "<", "=", " ", "5", "0", "0", ".", "5", "0", ".">>,
      <<"A", " ", "r", "e", "c", "e", "i", "p", "t", " ", "m", "u", "s", "t", " ", "b", "e", " ", "a", "t", "t", "a", "c", "h", "e", "d", " ", "f", "o", "r", " ", "a", "l", "l", " ", "c", "l", "a", "i", "m", "s", ".">>,
      <<"A", "l", "l", "o", "w", "e", "d", " ", "c", "l", "a", "i", "m", " ", "t", "y", "p", "e", "s", " ", "i", "n", "c", "l", "u", "d", "e", " ", "m", "e", "d", "i", "c", "a", "l", ",", " ", "t", "r", "a", "n", "s", "p", "o", "r", "t", ",", " ", "a", "n", "d", " ", "m", "e", "a", "l", ".">>,
      <<"A", "l", "l", "o", "w", "e", "d", " ", "c", "l", "a", "i", "m", " ", "t", "y", "p", "e", "s", " ", "a", "r", "e", " ", "M", "e", "d", "i", "c", "a", "l", " ", "A", "N", "D", " ", "D", "e", "n", "t", "a", "l", ".">>,
      <<"A", "l", "l", "o", "w", "e", "d", " ", "c", "l", "a", "i", "m", " ", "t", "y", "p", "e", "s", " ", "a", "r", "e", " ", "t", "r", "a", "v", "e", "l", " ", "o", "r", " ", "m", "e", "a", "l", ",", " ", "a", "n", "d", ".">>,
      <<"O", "v", "e", "r", "t", "i", "m", "e", " ", "n", "e", "e", "d", "s", " ", "a", "p", "p", "r", "o", "v", "a", "l", ".">> }

\* "1" repeated n times
Ones(n) == [k \in 1..n |-> "1"]

\* str.join(" ", sentences)
RECURSIVE JoinSentences(_)
JoinSentences(ss) ==
    IF ss = <<>> THEN <<>>
    ELSE IF Len(ss) = 1 THEN ss[1]
    ELSE ss[1] \o <<" ">> \o JoinSentences(Tail(ss))

\* texts of up to MaxSentences different sentences in every order
SentenceTexts ==
    {JoinSentences(ss) : ss \in {s \in SeqsUpTo(Sentences, MaxSentences) :
                                    \A i, j \in DOMAIN s : i < j => s[i] # s[j]}}

\* the four rules in the order of the function, and in the reverse order
\* between blank lines
FullText ==
    <<"A", "n", "n", "u", "a", "l", " ", "l", "e", "a", "v", "e", " ", "m", "u", "s", "t", " ", "b", "e", " ", "r", "e", "q", "u", "e", "s", "t", "e", "d", " ", "a", "t", " ", "l", "e", "a", "s", "t", " ", "3", " ", "d", "a", "y", "s", " ", "b", "e", "f", "o", "r", "e", " ", "t", "h", "e", " ", "l", "e", "a", "v", "e", " ", "s", "t", "a", "r", "t", " ", "d", "a", "t", "e", ".", " ", "C", "l", "a", "i", "m", "s", " ", "a", "b", "o", "v", "e", " ", "$", "1", ",", "0", "0", "0", " ", "a", "r", "e", " ", "n", "o", "t", " ", "a", "l", "l", "o", "w", "e", "d", ".", " ", "A", " ", "r", "e", "c", "e", "i", "p", "t", " ", "m", "u", "s", "t", " ", "b", "e", " ", "a", "t", "t", "a", "c", "h", "e", "d", " ", "f", "o", "r", " ", "a", "l", "l", " ", "c", "l", "a", "i", "m", "s", ".", " ", "A", "l", "l", "o", "w", "e", "d", " ", "c", "l", "a", "i", "m", " ", "t", "y", "p", "e", "s", " ", "i", "n", "c", "l", "u", "d", "e", " ", "m", "e", "d", "i", "c", "a", "l", ",", " ", "t", "r", "a", "n", "s", "p", "o", "r", "t", ",", " ", "a", "n", "d", " ", "m", "e", "a", "l", ".">>
ReversedText ==
    <<"A", "l", "l", "o", "w", "e", "d", " ", "c", "l", "a", "i", "m", " ", "t", "y", "p", "e", "s", " ", "i", "n", "c", "l", "u", "d", "e", " ", "m", "e", "d", "i", "c", "a", "l", ",", " ", "t", "r", "a", "n", "s", "p", "o", "r", "t", ",", " ", "a", "n", "d", " ", "m", "e", "a", "l", ".", "\n", "\n", "A", "l", "l", " ", "b", "e", "n", "e", "f", "i", "t", " ", "c", "l", "a", "i", "m", "s", " ", "r", "e", "q", "u", "i", "r", "e", " ", "a", " ", "r", "e", "c", "e", "i", "p", "t", ".", "\n", "\n", "C", "l", "a", "i", "m", " ", "a", "m", "o", "u", "n", "t", " ", "m", "u", "s", "t", " ", "b", "e", " ", "<", "=", " ", "5", "0", "0", ".", "5", "0", ".", "\n", "\n", "S", "i", "c", "k", " ", "L", "E", "A", "V", "E", " ", "m", "u", "s", "t", " ", "b", "e", "\n", "r", "e", "q", "u", "e", "s", "t", "e", "d", " ", "a", "t", " ", "l", "e", "a", "s", "t", " ", "1", "4", " ", "d", "a", "y", "s", " ", "b", "e", "f", "o", "r", "e", " ", "s", "t", "a", "r", "t", " ", "d", "a", "t", "e", ".", "\n">>
\* an allowed-types sentence whose list has only separators, the second
\* receipt phrasing, and a number of days with more digits than int() takes
OnlySeparatorsText ==
    <<"A", "l", "l", "o", "w", "e", "d", " ", "c", "l", "a", "i", "m", " ", "t", "y", "p", "e", "s", " ", "a", "r", "e", " ", ",", " ", ".">>
SecondReceiptText ==
    <<"A", "l", "l", " ", "b", "e", "n", "e", "f", "i", "t", " ", "c", "l", "a", "i", "m", "s", " ", "r", "e", "q", "u", "i", "r", "e", " ", "a", " ", "r", "e", "c", "e", "i", "p", "t", ".">>
LongDaysText ==
    <<"L", "e", "a", "v", "e", " ", "m", "u", "s", "t", " ", "b", "e", " ", "r", "e", "q", "u", "e", "s", "t", "e", "d", " ", "a", "t", " ", "l", "e", "a", "s", "t", " ">> \o Ones(IntMaxStrDigits + 1) \o <<" ", "d", "a", "y", "s", " ", "b", "e", "f", "o", "r", "e", " ", "t", "h", "e", " ", "s", "t", "a", "r", "t", " ", "d", "a", "t", "e", ".">>

Texts ==
    SentenceTexts \cup {FullText, ReversedText, OnlySeparatorsText, SecondReceiptText, LongDaysText}

\* the scope argument: the three documented values and another string
Scopes == {"both", "leave", "benefit", "all"}

\* the texts and scopes of the repeated calls
CallTexts == {FullText, ReversedText, <<"C", "l", "a", "i", "m", " ", "a", "m", "o", "u", "n", "t", " ", "m", "u", "s", "t", " ", "b", "e", " ", "<", "=", " ", "5", "0", "0", ".", "5", "0", ".">>}
CallScopes == {"both", "benefit"}

\* a call about to start
ParseCall(text, scope) ==
    /\ ptext = text /\ pscope = scope
    /\ ppc = "start" /\ pnorm = <<>> /\ prules = <<>> /\ pexc = "none"

\* everything but the parser is idle
ParserOnly ==
    /\ arule = NoRule /\ arow = <<>> /\ adt = "" /\ apc = "off" /\ ares = NoResult
    /\ RunIdle /\ RouteIdle /\ StoreIdle /\ ThreadsIdle

InitParse ==
    /\ ParserOnly
    /\ \E text \in Texts, scope \in Scopes : ParseCall(text, scope)
    /\ calls = <<>>

InitCalls ==
    /\ ParserOnly
    /\ \E text \in CallTexts, scope \in CallScopes : ParseCall(text, scope)
    /\ calls = <<>>

\* variant: the list of the previous call is kept
NewRulesMut(old) == old
\* rules = []
NewRules(old) == <<>>

\* the record of a finished call
CallRecord(e, rs) == [text |-> ptext, scope |-> pscope, exc |-> e, rules |-> rs]

\* lines 31-38: text, rules, want_leave, want_benefit, normalized
PBegin ==
    /\ ppc = "start"
    /\ pnorm' = Normalize(Strip(ptext))
    /\ prules' = NewRules(prules)
    /\ ppc' = "leave"
    /\ UNCHANGED <<avars, rvars, hvars, svars, tvars, ptext, pscope, pexc, calls>>

\* one block of the function: its rule appended if its pattern is found, or
\* the call left by the exception the block raised
PBlock(at, b, next) ==
    /\ ppc = at
    /\     IF b.exc # "none"
           THEN /\ ppc' = "raised" /\ pexc' = b.exc
                /\ calls' = Append(calls, CallRecord(b.exc, <<>>))
                /\ UNCHANGED prules
           ELSE /\ ppc' = next /\ prules' = b.rules
                /\ UNCHANGED <<pexc, calls>>
    /\ UNCHANGED <<avars, rvars, hvars, svars, tvars, ptext, pscope, pnorm>>

PLeave == PBlock("leave", LeaveBlock(prules, pnorm, pscope), "max")
PMaxAmount == PBlock("max", MaxAmountBlock(prules, pnorm, pscope), "receipt")
PReceipt == PBlock("receipt", ReceiptBlock(prules, pnorm, pscope), "types")
PAllowedTypes == PBlock("types", AllowedTypesBlock(prules, pnorm, pscope), "return")

\* return rules
PReturn ==
    /\ ppc = "return"
    /\ ppc' = "done"
    /\ calls' = Append(calls, CallRecord("none", prules))
    /\ UNCHANGED <<avars, rvars, hvars, svars, tvars, ptext, pscope, pnorm, prules, pexc>>

\* the caller calls again, with a text and a scope of its choice
NextCall ==
    /\ ppc \in {"done", "raised"}
    /\ Len(calls) < MaxCalls
    /\ \E text \in CallTexts, scope \in CallScopes : ptext' = text /\ pscope' = scope
    /\ ppc' = "start" /\ pnorm' = <<>> /\ pexc' = "none"
    /\ UNCHANGED <<avars, rvars, hvars, svars, tvars, prules, calls>>

NextParse == PBegin \/ PLeave \/ PMaxAmount \/ PReceipt \/ PAllowedTypes \/ PReturn
SpecParse == InitParse /\ [][NextParse]_vars

NextCalls == NextParse \/ NextCall
SpecCalls == InitCalls /\ [][NextCalls]_vars

----------------------------------------------------------------------------
(* Properties of parse_rules_from_text, checked under SpecParse and SpecCalls *)

Categories(rs) == {rs[k].category : k \in DOMAIN rs}
CheckTypes(rs) == [k \in DOMAIN rs |-> rs[k].check_type]

\* C14: with scope leave a call returns only rules of category leave, with
\* scope benefit only rules of category benefit, whatever the text holds; with
\* scope both it returns the rules of the leave call followed by the rules of
\* the benefit call on the same text.
C14_ScopeFilter ==
    ppc = "done" =>
        /\ pscope = "leave" => Categories(prules) \subseteq {"leave"}
        /\ pscope = "benefit" => Categories(prules) \subseteq {"benefit"}
        /\ pscope = "both" =>
              prules = parse_rules_from_text(ptext, "leave").rules
                       \o parse_rules_from_text(ptext, "benefit").rules

\* the text with a sentence of each kind parsed with scope leave, and with
\* scope benefit
C14_Witness ==
    /\ ppc = "done" /\ ptext = FullText
    /\ \/ pscope = "leave" /\ Len(prules) = 1
       \/ pscope = "benefit" /\ Len(prules) = 3

\* the place of a check type in the order of the function
CheckOrder == <<"leave_advance_days", "benefit_max_amount",
                "benefit_requires_receipt", "benefit_allowed_types">>
Rank(ct) == CHOOSE k \in DOMAIN CheckOrder : CheckOrder[k] = ct

\* the sentence sequences the text is made of, and their reorderings
SentenceSeqs ==
    {s \in SeqsUpTo(Sentences, MaxSentences) : \A i, j \in DOMAIN s : i < j => s[i] # s[j]}
Reorderings(ss) == {s \in SentenceSeqs : Len(s) = Len(ss) /\ Range(s) = Range(ss)}

\* C15: the rules of a call come in the order leave_advance_days,
\* benefit_max_amount, benefit_requires_receipt, benefit_allowed_types, each
\* at most once, wherever their sentences stand in the text; the text with
\* its sentences reordered gives the same sequence of check types.
C15_FixedOrder ==
    ppc = "done" =>
        /\ \A i, j \in DOMAIN prules :
              i < j => Rank(prules[i].check_type) < Rank(prules[j].check_type)
        /\ \A ss \in SentenceSeqs :
              JoinSentences(ss) = ptext =>
                 \A s2 \in Reorderings(ss) :
                    CheckTypes(parse_rules_from_text(JoinSentences(s2), pscope).rules)
                       = CheckTypes(prules)

\* the text whose sentences stand in the reverse order, all four recognized
C15_Witness ==
    /\ ppc = "done" /\ ptext = ReversedText /\ pscope = "both"
    /\ CheckTypes(prules) = CheckOrder

\* the code the claim gives the n-th rule of a category
ExpectedCode(category, n) ==
    IF category = "leave" THEN <<"L", "E", "A", "V", "E", "_", "0", "0">> \o <<DigitChars[n + 1]>>
    ELSE <<"B", "E", "N", "_", "0", "0">> \o <<DigitChars[n + 1]>>
\* how many of the first k rules have the category of the k-th
NumberInCategory(rs, k) ==
    Cardinality({m \in 1..k : rs[m].category = rs[k].category})

\* C16: in the result of one call the codes of each category count up from
\* 001 in output order, without gap or repeat: LEAVE_001 for the leave rule,
\* BEN_001 to BEN_00k for the k benefit rules, whichever patterns matched.
C16_SequentialCodes ==
    ppc = "done" =>
        \A k \in DOMAIN prules :
            prules[k].rule_code = ExpectedCode(prules[k].category, NumberInCategory(prules, k))

\* a leave rule, and two benefit rules without the maximum-amount rule
C16_Witness ==
    /\ ppc = "done" /\ pscope = "both"
    /\ \/ CheckTypes(prules) = <<"leave_advance_days", "benefit_requires_receipt">>
       \/ CheckTypes(prules) = <<"benefit_requires_receipt", "benefit_allowed_types">>

\* whether w occurs in t
Contains(t, w) == \E i \in DOMAIN t : MatchLit(t, i, w) # 0
StartsWith(t, w) == MatchLit(t, 1, w) # 0
TypesRules(rs) == SelectSeq(rs, LAMBDA r : r.check_type = "benefit_allowed_types")

\* C18: the allowed_types of a call are the sentence's list split at every
\* comma and every word and / or: each token trimmed and lower-cased, none
\* empty, none holding a comma or a conjunction between words, none that is
\* or begins with a conjunction; and the rule is emitted exactly when the
\* list is not empty.
C18_TypesSplit ==
    ppc = "done" =>
        /\ \A r \in Range(TypesRules(prules)) :
              /\ r.params.allowed_types # <<>>
              /\ \A k \in DOMAIN r.params.allowed_types :
                    LET t == r.params.allowed_types[k]
                    IN  /\ t # <<>> /\ t = Lower(Strip(t))
                        /\ ~Contains(t, <<",">>)
                        /\ ~Contains(t, <<" ", "a", "n", "d", " ">>) /\ ~Contains(t, <<" ", "o", "r", " ">>)
                        /\ t \notin {<<"a", "n", "d">>, <<"o", "r">>}
                        /\ ~StartsWith(t, <<"a", "n", "d", " ">>) /\ ~StartsWith(t, <<"o", "r", " ">>)
        /\ (WantBenefit(pscope) /\ SearchTypes(pnorm).ok
              /\ AllowedTypesOf(SearchTypes(pnorm).g1) # <<>>)
           <=> TypesRules(prules) # <<>>

\* C19: no call is left by an exception, whatever the text and the scope.
C19_NeverRaises == ppc # "raised"

\* C20: two calls with the same text and the same scope give the same
\* outcome: the same rules (codes, check types, params) in the same order,
\* whatever calls were made between them.
C20_Idempotent ==
    \A i, j \in DOMAIN calls :
        (calls[i].text = calls[j].text /\ calls[i].scope = calls[j].scope)
        => calls[i].exc = calls[j].exc /\ calls[i].rules = calls[j].rules

\* three calls, the first and the third with the same arguments and the
\* second with another text, all giving rules
C20_Witness ==
    /\ Len(calls) = 3
    /\ calls[1].text = calls[3].text /\ calls[1].scope = calls[3].scope
    /\ calls[2].text # calls[1].text
    /\ calls[1].rules # <<>> /\ calls[2].rules # <<>> /\ calls[3].rules = calls[1].rules

\* the two phrasings of the maximum amount, with different amounts
AboveSentence ==
    <<"C", "l", "a", "i", "m", "s", " ", "a", "b", "o", "v", "e", " ", "$", "1", ",", "0", "0", "0", " ", "a", "r", "e", " ", "n", "o", "t", " ", "a", "l", "l", "o", "w", "e", "d", ".">>
AtMostSentence ==
    <<"C", "l", "a", "i", "m", " ", "a", "m", "o", "u", "n", "t", " ", "m", "u", "s", "t", " ", "b", "e", " ", "<", "=", " ", "5", "0", "0", ".", "5", "0", ".">>
\* whether the text holds the sentence w
Holds(t, w) == \E i \in 0..(Len(t) - Len(w)) : SubSeq(t, i + 1, i + Len(w)) = w

MaxAmountRules(rs) == SelectSeq(rs, LAMBDA r : r.check_type = "benefit_max_amount")
\* every check type at most once, hence at most four rules
OncePerCheckType(rs) ==
    /\ \A i, j \in DOMAIN rs : i # j => rs[i].check_type # rs[j].check_type
    /\ Len(rs) <= 4
\* one benefit_max_amount rule, with the amount of AboveSentence
AboveAmountWins(rs) ==
    /\ Len(MaxAmountRules(rs)) = 1
    /\ NumEq(MaxAmountRules(rs)[1].params.max_amount, Fin(1000, 0))

\* C25 as stated: a call emits at most one rule per check_type, at most four
\* in all; and a text with both phrasings of the maximum amount gives exactly
\* one benefit_max_amount rule, with the amount of the "claims above"
\* phrasing, wherever the two sentences stand.
C25_OneMaxAmountRule ==
    ppc = "done" =>
        /\ OncePerCheckType(prules)
        /\ (Holds(ptext, AboveSentence) /\ Holds(ptext, AtMostSentence)) => AboveAmountWins(prules)

\* C25 amended: the same, the benefit_max_amount rule being emitted when the
\* scope is both or benefit; with any other scope the text gives no
\* benefit_max_amount rule.
C25_OneMaxAmountRuleInScope ==
    ppc = "done" =>
        /\ OncePerCheckType(prules)
        /\ (Holds(ptext, AboveSentence) /\ Holds(ptext, AtMostSentence)) =>
              IF pscope \in {"both", "benefit"} THEN AboveAmountWins(prules)
              ELSE MaxAmountRules(prules) = <<>>

\* the "<=" sentence standing before the "claims above" sentence
C25_Witness ==
    /\ ppc = "done" /\ pscope = "both"
    /\ ptext = JoinSentences(<<AtMostSentence, AboveSentence>>)
    /\ AboveAmountWins(prules)

----------------------------------------------------------------------------
(* Two /compliance/run requests served at once (app.py, compliance.py,     *)
(* db.py).  SessionLocal is a scoped_session: each thread works on its own *)
(* session, and what a session holds pending reaches the tables only at    *)
(* its own commit.  The statements of a request that touch no table run    *)
(* between the steps of the other request in any order.                    *)

Threads == {1, 2}

\* the rules table while the requests run: the rules of RouteRulePool
PairRules ==
    << Rule(1, 1, "benefit", "high", "benefit_max_amount",
            [amount_column |-> "claim_amount", max_amount |-> Fin(100, 0)]),
       Rule(2, 1, "benefit", "medium", "benefit_requires_receipt",
            [receipt_column |-> "receipt_attached"]),
       Rule(3, 2, "benefit", "", "benefit_requires_receipt",
            [receipt_column |-> "receipt_attached"]) >>

\* the datasets table and the uploaded files: two benefit files and a leave
\* file, for which no policy has a rule
PairDatasets ==
    << [dataset_type |-> "benefit",
        rows |-> << [employee_id |-> PyStr(<<"E", "1">>), claim_amount |-> PyStr(<<"1", "5", "0">>), receipt_attached |-> PyStr(<<"y", "e", "s">>)],
                    [employee_id |-> PyStr(<<"E", "2">>), claim_amount |-> PyStr(<<"5", "0">>), receipt_attached |-> PyStr(<<"n", "o">>)] >>],
       [dataset_type |-> "benefit",
        rows |-> << [employee_id |-> PyStr(<<"E", "3">>), claim_amount |-> PyStr(<<"2", "0", "0">>), receipt_attached |-> PyStr(<<"n", "o">>)] >>],
       [dataset_type |-> "leave",
        rows |-> << [employee_id |-> PyStr(<<"E", "4">>), request_date |-> PyStr(<<"2", "0", "2", "4", "-", "0", "1", "-", "0", "1">>), leave_start_date |-> PyStr(<<"2", "0", "2", "4", "-", "0", "1", "-", "0", "2">>)] >>] >>

\* the (policy, dataset) pairs a request can name
Pairs == Policies \X DOMAIN PairDatasets

\* the violations table before the requests: for every pair a violation an
\* earlier run stored
EarlierViolations ==
    LET ps == <<<<1, 1>>, <<1, 2>>, <<1, 3>>, <<2, 1>>, <<2, 2>>, <<2, 3>>>>
    IN  [k \in DOMAIN ps |->
            [id |-> k, policy_id |-> ps[k][1], rule_id |-> 3, dataset_id |-> ps[k][2],
             employee_identifier |-> <<"E", "0">>, evidence |-> <<>>, risk |-> "low"]]

\* variant: one session shared by the threads
SessionOfMut(t) == 1
\* SessionLocal = scoped_session(...): the registry hands each thread its own
\* session
SessionOf(t) == t

\* two requests for different pairs, neither begun
InitPair ==
    /\ arule = NoRule /\ arow = <<>> /\ adt = "" /\ apc = "off" /\ ares = NoResult
    /\ rules_tbl = PairRules
    /\ policy_id = 0
    /\ ds_found = TRUE /\ ds_type = "" /\ file_ok = TRUE /\ file_rows = <<>>
    /\ fail_at = 0
    /\ pc = "off"
    /\ rules = <<>> /\ opens = 0 /\ pos = 0 /\ row = <<>> /\ ri = 0
    /\ employee_id = <<>> /\ violations_created = <<>> /\ session_new = <<>>
    /\ session_deleted = {}
    /\ violations_tbl = EarlierViolations /\ outcome = "none"
    /\ RouteIdle /\ ParseIdle /\ StoreIdle
    /\ \E p1, p2 \in Pairs :
          /\ p1 # p2
          /\ threads = [t \in Threads |->
                [pc |-> "idle", policy_id |-> (IF t = 1 THEN p1 ELSE p2)[1],
                 dataset_id |-> (IF t = 1 THEN p1 ELSE p2)[2],
                 rules |-> <<>>, pos |-> 0, violations_created |-> <<>>,
                 committed |-> FALSE]]
    /\ sessions = [s \in Threads |-> [new |-> <<>>, deleted |-> {}]]
    /\ overlap = FALSE

\* whether a request is between its first statement and its return
UnderWay(th) == th.pc \notin {"idle", "returned"}

\* the rules of rs from the j-th on applied to the row r of a file of type
\* dt: the violations the inner loop of run_compliance builds, in rule order
RECURSIVE RowViolations(_, _, _, _, _, _)
RowViolations(pol, ds, dt, rs, r, j) ==
    IF j > Len(rs) THEN <<>>
    ELSE LET res == apply_rule_to_row(rs[j], r, dt)
             v == [Violation(pol, rs[j], EmployeeId(r), res.evidence) EXCEPT !.dataset_id = ds]
         IN  (IF res.exc = "none" /\ res.is_violation THEN <<v>> ELSE <<>>)
             \o RowViolations(pol, ds, dt, rs, r, j + 1)

\* db_session = next(get_db()); the delete of the pair's violations, pending
\* in the thread's session
PairBegin(t) ==
    /\ threads[t].pc = "idle"
    /\ LET th == threads[t]
           s == CloseSession(sessions[SessionOf(t)].new, sessions[SessionOf(t)].deleted)
       IN  /\ sessions' = [sessions EXCEPT ![SessionOf(t)] =
                              [new |-> s.new,
                               deleted |-> s.deleted \cup {<<th.policy_id, th.dataset_id>>}]]
           /\ threads' = [threads EXCEPT ![t].pc = "start"]
    /\ overlap' = (overlap \/ \E u \in Threads \ {t} : UnderWay(threads[u]))
    /\ UNCHANGED <<avars, rvars, hvars, pvars, svars>>

\* run_compliance up to the rules query: the dataset is found; without a
\* rule of the policy for the dataset's type the run returns [] and the
\* route commits nothing
PairQuery(t) ==
    /\ threads[t].pc = "start"
    /\ LET th == threads[t]
           rs == QueryRules(th.policy_id, PairDatasets[th.dataset_id].dataset_type)
       IN  threads' = [threads EXCEPT ![t].rules = rs,
                                      ![t].pc = IF rs = <<>> THEN "returned" ELSE "read"]
    /\ UNCHANGED <<avars, rvars, hvars, pvars, svars, sessions, overlap>>

\* one row of the file under every rule: db.add(v) and
\* violations_created.append(v) per violation; after the last row the run
\* goes on to its commit
PairRow(t) ==
    /\ threads[t].pc = "read"
    /\ LET th == threads[t]
           d == PairDatasets[th.dataset_id]
       IN  IF th.pos < Len(d.rows)
           THEN LET vs == RowViolations(th.policy_id, th.dataset_id, d.dataset_type,
                                        th.rules, d.rows[th.pos + 1], 1)
                IN  /\ threads' = [threads EXCEPT
                                      ![t].pos = th.pos + 1,
                                      ![t].violations_created = th.violations_created \o vs]
                    /\ sessions' = [sessions EXCEPT ![SessionOf(t)].new = @ \o vs]
           ELSE /\ threads' = [threads EXCEPT ![t].pc = "commit"]
                /\ sessions' = sessions
    /\ UNCHANGED <<avars, rvars, hvars, pvars, svars, overlap>>

\* db.commit(): the deletes and the pending objects of the thread's session
\* reach the violations table
PairCommit(t) ==
    /\ threads[t].pc = "commit"
    /\ LET s == sessions[SessionOf(t)]
       IN  violations_tbl' = Committed(s.new, s.deleted)
    /\ sessions' = [sessions EXCEPT ![SessionOf(t)] = [new |-> <<>>, deleted |-> {}]]
    /\ threads' = [threads EXCEPT ![t].pc = "returned", ![t].committed = TRUE]
    /\ UNCHANGED <<avars, hvars, pvars, svars, overlap, session_deleted, rules_tbl,
                   ds_found, ds_type, file_ok, file_rows, fail_at, policy_id, rules,
                   opens, pos, row, ri, employee_id, violations_created, session_new,
                   pc, outcome>>

NextPair ==
    \E t \in Threads : PairBegin(t) \/ PairQuery(t) \/ PairRow(t) \/ PairCommit(t)

SpecPair == InitPair /\ [][NextPair]_vars

\* the committed violations of the pair (pol, ds), in table order
StoredOf(tbl, pol, ds) ==
    Keys(SelectSeq(tbl, LAMBDA v : v.policy_id = pol /\ v.dataset_id = ds))

\* what a run for (pol, ds) with no other request about returns: for each
\* row from the i-th and each rule of the policy for the file's type from the
\* j-th, the violation of the row under the rule
RECURSIVE AloneKeys(_, _, _, _)
AloneKeys(pol, ds, i, j) ==
    LET d == PairDatasets[ds]
        rs == SelectSeq(PairRules, LAMBDA r : r.policy_id = pol /\ r.category = d.dataset_type)
    IN  IF i > Len(d.rows) THEN <<>>
        ELSE IF j > Len(rs) THEN AloneKeys(pol, ds, i + 1, 1)
        ELSE LET res == apply_rule_to_row(rs[j], d.rows[i], d.dataset_type)
             IN  (IF res.is_violation
                  THEN << <<rs[j].id, EmployeeId(d.rows[i]),
                            IF rs[j].severity = "" THEN "medium" ELSE rs[j].severity>> >>
                  ELSE <<>>)
                 \o AloneKeys(pol, ds, i, j + 1)

----------------------------------------------------------------------------
(* The rules table under the routes that fill it: extract_rules_simple     *)
(* and save_rules (app.py).  Of a stored rule the policy and the rule code *)
(* are kept.                                                               *)

\* most rows of the rules table
MaxStored == 3

\* a policy id no policy has
MissingPolicy == 3

BenefitText ==
    <<"C", "l", "a", "i", "m", "s", " ", "a", "b", "o", "v", "e", " ", "$", "1", ",", "0", "0", "0", " ", "a", "r", "e", " ", "n", "o", "t", " ", "a", "l", "l", "o", "w", "e", "d", ".", " ", "A", " ", "r", "e", "c", "e", "i", "p", "t", " ", "m", "u", "s", "t", " ", "b", "e", " ", "a", "t", "t", "a", "c", "h", "e", "d", " ", "f", "o", "r", " ", "a", "l", "l", " ", "c", "l", "a", "i", "m", "s", ".">>
NoRuleText == <<"B", "e", " ", "k", "i", "n", "d", " ", "t", "o", " ", "e", "a", "c", "h", " ", "o", "t", "h", "e", "r", ".">>

\* policies created by POST /policies (raw_text is never empty there; scope
\* is the posted string)
PolicyTables ==
    { (1 :> [raw_text |-> FullText, scope |-> "leave"]) @@ (2 :> [raw_text |-> FullText, scope |-> "benefit"]),
      (1 :> [raw_text |-> BenefitText, scope |-> ""]) @@ (2 :> [raw_text |-> NoRuleText, scope |-> "both"]),
      (1 :> [raw_text |-> LongDaysText, scope |-> "both"]) @@ (2 :> [raw_text |-> FullText, scope |-> "leave"]) }

\* parse_rules_from_text(policy.raw_text or "", policy.scope or "both")
ParseOf(policy) ==
    parse_rules_from_text(policy.raw_text,
                          IF policy.scope = "" THEN "both" ELSE policy.scope)

\* r.get("rule_id") or r.get("rule_code")
RuleCodeOf(r) ==
    LET a == Get(r, "rule_id", PyNone)
    IN  IF Truthy(a) THEN a ELSE Get(r, "rule_code", PyNone)

\* Rule(policy_id=policy.id, rule_code=..., ...)
RuleRow(pid, r) == [policy_id |-> pid, rule_code |-> RuleCodeOf(r)]

\* a rule dict of the parser as the route reads it
ParsedDict(r) == [rule_code |-> PyStr(r.rule_code)]

\* the loop of db.add over rules_json and the commit after it
AddAll(tbl, pid, rules_json) ==
    tbl \o [k \in DOMAIN rules_json |-> RuleRow(pid, rules_json[k])]

\* the rules_json form field of save_rules: the JSON array of dicts, or
\* parsed = FALSE for text that is no JSON array
Leave001 == PyStr(<<"L", "E", "A", "V", "E", "_", "0", "0", "1">>)
Ben001 == PyStr(<<"B", "E", "N", "_", "0", "0", "1">>)
Payloads ==
    { [parsed |-> FALSE, items |-> <<>>],
      [parsed |-> TRUE, items |-> <<>>],
      [parsed |-> TRUE, items |-> <<[rule_code |-> Leave001]>>],
      [parsed |-> TRUE, items |-> <<[rule_id |-> PyStr(<<"R", "1">>), rule_code |-> Leave001]>>],
      [parsed |-> TRUE, items |-> <<[rule_id |-> PyStr(<<>>), rule_code |-> Ben001]>>],
      [parsed |-> TRUE, items |-> <<[rule_code |-> Ben001], [rule_code |-> Ben001]>>],
      [parsed |-> TRUE, items |-> <<[category |-> PyStr(<<"l", "e", "a", "v", "e">>)]>>],
      [parsed |-> TRUE, items |-> <<[rule_code |-> Leave001], PyInt(1)>>] }

\* an element of the array that has a get method
IsDict(r) == "t" \notin DOMAIN r

InitRules ==
    /\ arule = NoRule /\ arow = <<>> /\ adt = "" /\ apc = "off" /\ ares = NoResult
    /\ RunIdle /\ RouteIdle /\ ParseIdle /\ ThreadsIdle
    /\ policies_tbl \in PolicyTables
    /\ parsed = [pid \in Policies |-> ParseOf(policies_tbl[pid])]
    /\ stored_rules = <<>>

\* POST /policies/<policy_id>/extract_rules_simple (the call of the parser
\* reads the policy alone, and no route edits a policy: parsed holds what
\* it gives, computed when the policy is created): 404 for no policy; the
\* exception of the parser leaves the route; an empty result is flashed;
\* else every rule is added and the session committed
ExtractRulesSimple ==
    \E pid \in Policies \cup {MissingPolicy} :
        LET res == parsed[pid]
        IN  /\ IF pid \notin DOMAIN policies_tbl THEN UNCHANGED stored_rules
               ELSE IF res.exc # "none" THEN UNCHANGED stored_rules
               ELSE IF res.rules = <<>> THEN UNCHANGED stored_rules
               ELSE /\ Len(stored_rules) + Len(res.rules) <= MaxStored
                    /\ stored_rules' = AddAll(stored_rules, pid,
                                              [k \in DOMAIN res.rules |-> ParsedDict(res.rules[k])])
            /\ UNCHANGED <<avars, rvars, hvars, pvars, tvars, policies_tbl, parsed>>

\* POST /policies/<policy_id>/save_rules: 404 for no policy; a payload that
\* is no JSON array is flashed; an element without get raises and nothing
\* is committed; else every element is added and the session committed
SaveRules ==
    \E pid \in Policies \cup {MissingPolicy}, payload \in Payloads :
        /\ IF pid \notin DOMAIN policies_tbl THEN UNCHANGED stored_rules
           ELSE IF ~payload.parsed THEN UNCHANGED stored_rules
           ELSE IF \E k \in DOMAIN payload.items : ~IsDict(payload.items[k])
                THEN UNCHANGED stored_rules
           ELSE /\ Len(stored_rules) + Len(payload.items) <= MaxStored
                /\ stored_rules' = AddAll(stored_rules, pid, payload.items)
        /\ UNCHANGED <<avars, rvars, hvars, pvars, tvars, policies_tbl, parsed>>

NextRules == ExtractRulesSimple \/ SaveRules
SpecRules == InitRules /\ [][NextRules]_vars

\* the rule codes stored for a policy, in insertion order
CodesOf(pid) ==
    LET rows == SelectSeq(stored_rules, LAMBDA x : x.policy_id = pid)
    IN  [k \in DOMAIN rows |-> rows[k].rule_code]

\* C17: after any sequence of extract_rules_simple and save_rules requests
\* the rule codes of the rules stored for a policy are pairwise distinct.
C17_DistinctCodes ==
    \A pid \in Policies :
        \A i, j \in DOMAIN CodesOf(pid) : i # j => CodesOf(pid)[i] # CodesOf(pid)[j]

====
